---- MODULE Spec2Model ----
(***************************************************************************)
(* Dialogue state of the travel assistant (backend/chatbot):               *)
(*   - ConversationContextManager: the per-session context_data            *)
(*     (active_search, mentioned_entities, location_memory, ...),          *)
(*   - the chat handlers that filter the destination catalog and store     *)
(*     the result ids (views.py, budget_handler.py),                       *)
(*   - HybridNLPEngine.process_message and its entity extraction.          *)
(* Timestamps and reply texts are not modelled: no decision reads them.    *)
(***************************************************************************)
EXTENDS Integers, Sequences, FiniteSets, TLC

(***************************************************************************)
(* Bounds of the model.                                                    *)
(***************************************************************************)
\* number of destinations in the catalog
NumDest == 4
\* update_active_search calls between two clears (caps results_evolution)
MaxSteps == 3
\* chat turns of one session (SpecTurn)
MaxTurns == 3
\* longest result list handed to update_active_search by an API-level call
MaxListLen == 2
\* destination ids offered to update_location_context (SpecLoc)
NumLocIds == 11
\* longest result list handed to resolve_reference (SpecRef)
MaxRefLen == 3
\* largest amount N of an "under <N><suffix>" utterance (SpecBudget)
MaxAmount == 1200
\* process_message and learn_from_interaction calls on one engine (SpecNlp)
MaxCalls == 3

DestIds == 1..NumDest
\* "no destination id": Python None in an id position
NoId == 0
\* an IndexError raised in an id position
IndexError == -1
\* "no query": Python None in active_search['initial_query']
NoQuery == "None"
\* user messages are stripped and non-empty (views.py:59-63, consumers.py)
Queries == {"show me beach destinations", "under 30000 budget"}

Range(s) == {s[i] : i \in 1..Len(s)}

RECURSIVE SeqsOfLen(_, _)
SeqsOfLen(S, n) ==
    IF n = 0 THEN {<<>>}
    ELSE {Append(s, x) : s \in SeqsOfLen(S, n - 1), x \in S}

\* duplicate-free id lists of length <= n
IdLists(S, n) ==
    {s \in UNION {SeqsOfLen(S, k) : k \in 0..n} :
        \A i, j \in 1..Len(s) : i # j => s[i] # s[j]}

(***************************************************************************)
(* Constraints handed to update_active_search: None, the empty dict {},    *)
(* or a dict with a 'type' and a 'value'.                                  *)
(***************************************************************************)
NoneConstraint == [type |-> "None", value |-> 0]
EmptyConstraint == [type |-> "empty", value |-> 0]
Constraint(t, v) == [type |-> t, value |-> v]
\* Python `constraint is not None`
IsNotNone(c) == c.type # "None"
\* Python truthiness of the dict: None and {} are falsy
Truthy(c) == c.type \notin {"None", "empty"}

VARIABLES
    active_search,        \* context_data['active_search']
    mentioned_entities,   \* context_data['mentioned_entities']
    location_memory,      \* context_data['location_memory']
    conversation_flow,    \* context_data['conversation_flow']
    user_preferences_learned, \* context_data['user_preferences_learned']
    rankings_applied,     \* context_data['rankings_applied']
    turn,                 \* the session's last chat turn: handler, reply, total_messages
    nlp,                  \* HybridNLPEngine: result cache, learned phrases, last result
    probe                 \* input and output of the last pure-function call

vars == <<active_search, mentioned_entities, location_memory, conversation_flow,
          user_preferences_learned, rankings_applied, turn, nlp, probe>>

ctxvars == <<active_search, mentioned_entities, location_memory, conversation_flow,
             user_preferences_learned, rankings_applied>>

(***************************************************************************)
(* ConversationContextManager._load_or_create_context: the defaults.       *)
(***************************************************************************)
FreshActiveSearch ==
    [initial_query |-> NoQuery,
     constraints_applied |-> <<>>,
     results_evolution |-> <<>>,
     current_destination_ids |-> <<>>,
     is_refining |-> FALSE,
     search_mode |-> "fresh"]

FreshMentionedEntities == [last_discussed_destination |-> NoId]

NoLocation == [id |-> NoId, interaction_type |-> "None"]

FreshLocationMemory ==
    [last_discussed_location |-> NoLocation,
     location_history |-> <<>>]

NoTopic == "None"

FreshConversationFlow ==
    [current_topic |-> NoTopic, topic_history |-> <<>>, topic_switches |-> 0]

\* weights in hundredths
DefaultRankings ==
    [weather_priority |-> 35, resource_priority |-> 20, safety_priority |-> 15,
     popularity_priority |-> 15, budget_priority |-> 10,
     user_preference_priority |-> 5]

NoTurn == [handler |-> "none", text |-> "", context |-> "none", mode |-> "none",
           relaxed |-> FALSE, before |-> <<>>, destinations |-> <<>>,
           cap |-> 0, resolved |-> NoId, total_messages |-> 0]

\* no process_message result: nothing returned yet, or a cache miss
NoResult == [status |-> "None", text |-> "", intent |-> "None", is_safe |-> TRUE,
             safety_issues |-> {}, source |-> "None"]

\* HybridNLPEngine.__init__: nlp is the spaCy model (FALSE: not installed),
\* gemini_model the external classifier (FALSE: not configured)
NewEngine(spacy_loaded, gemini_configured) ==
    [nlp |-> spacy_loaded,
     gemini_model |-> gemini_configured,
     cache |-> {},
     phrase_mappings |-> <<>>,
     correction_history |-> <<>>,
     result |-> NoResult,
     calls |-> 0]

NoProbe == [fn |-> "none"]

InitContext ==
    /\ active_search = FreshActiveSearch
    /\ mentioned_entities = FreshMentionedEntities
    /\ location_memory = FreshLocationMemory
    /\ conversation_flow = FreshConversationFlow
    /\ user_preferences_learned = {}
    /\ rankings_applied = DefaultRankings

Init ==
    /\ InitContext
    /\ turn = NoTurn
    /\ nlp = NewEngine(TRUE, TRUE)
    /\ probe = NoProbe

(***************************************************************************)
(* ConversationContextManager.update_active_search                         *)
(***************************************************************************)
\* a step counter that starts at 0
StepNumber_mut(results_evolution) == Len(results_evolution)

\* the step number given to the appended results_evolution entry
StepNumber(results_evolution) == Len(results_evolution) + 1

\* the is_refining flag stored by the call
StoredIsRefining(constraint) == IsNotNone(constraint)

update_active_search(as, query, results, constraint) ==
    LET started == IF as.initial_query = NoQuery
                   THEN [as EXCEPT !.initial_query = query,
                                   !.is_refining = FALSE,
                                   !.search_mode = "fresh",
                                   !.results_evolution = <<>>]
                   ELSE as
        entry == [step |-> StepNumber(started.results_evolution),
                  count |-> Len(results),
                  query |-> query]
        stored == [started EXCEPT
                     !.results_evolution = Append(started.results_evolution, entry),
                     !.current_destination_ids = results,
                     !.is_refining = StoredIsRefining(constraint)]
    IN  IF Truthy(constraint)
        THEN [stored EXCEPT
                 !.constraints_applied = Append(stored.constraints_applied, constraint)]
        ELSE stored

get_current_destinations == active_search.current_destination_ids

(***************************************************************************)
(* ConversationContextManager.clear_context                                *)
(***************************************************************************)
\* a clear that forgets the learned preferences whatever the flag
clear_context_mut(keep_preferences) ==
    /\ conversation_flow' =
         IF conversation_flow.current_topic # NoTopic
         THEN [conversation_flow EXCEPT
                 !.topic_history = Append(@, conversation_flow.current_topic),
                 !.topic_switches = @ + 1]
         ELSE conversation_flow
    /\ active_search' = FreshActiveSearch
    /\ mentioned_entities' = FreshMentionedEntities
    /\ user_preferences_learned' = {}
    /\ UNCHANGED <<location_memory, rankings_applied>>

clear_context(keep_preferences) ==
    /\ conversation_flow' =
         IF conversation_flow.current_topic # NoTopic
         THEN [conversation_flow EXCEPT
                 !.topic_history = Append(@, conversation_flow.current_topic),
                 !.topic_switches = @ + 1]
         ELSE conversation_flow
    /\ active_search' = FreshActiveSearch
    /\ mentioned_entities' = FreshMentionedEntities
    /\ user_preferences_learned' =
         IF keep_preferences THEN user_preferences_learned ELSE {}
    /\ UNCHANGED <<location_memory, rankings_applied>>

(***************************************************************************)
(* ConversationContextManager.update_location_context                      *)
(***************************************************************************)
\* Python s[-n:]
LastN(s, n) == IF Len(s) <= n THEN s ELSE SubSeq(s, Len(s) - n + 1, Len(s))

\* location_history keeps this many entries
HistoryCap == 10

\* a history that is never trimmed
TrimHistory_mut(history) == history

TrimHistory(history) == LastN(history, HistoryCap)

InHistory(history, destination_id) ==
    \E i \in 1..Len(history) : history[i].id = destination_id

update_location_context(destination_id, interaction_type) ==
    LET entry == [id |-> destination_id, interaction_type |-> interaction_type]
        history == location_memory.location_history
        updated == IF ~InHistory(history, destination_id)
                   THEN Append(history, entry)
                   ELSE [i \in 1..Len(history) |->
                           IF history[i].id = destination_id
                              /\ \A j \in 1..(i - 1) : history[j].id # destination_id
                           THEN entry ELSE history[i]]
    IN  /\ location_memory' =
             [last_discussed_location |-> entry,
              location_history |-> TrimHistory(updated)]
        /\ mentioned_entities' =
             [mentioned_entities EXCEPT !.last_discussed_destination = destination_id]

(***************************************************************************)
(* ConversationContextManager: update_topic, learn_preference,             *)
(* adjust_ranking_priorities, as functions of the stored value.            *)
(***************************************************************************)
update_topic(flow, new_topic) == [flow EXCEPT !.current_topic = new_topic]

\* user_preferences_learned[key] = value (True is 1, False is 0)
learn_preference(prefs, key, value) ==
    {p \in prefs : p.key # key} \cup {[key |-> key, value |-> value]}

Bool01(b) == IF b THEN 1 ELSE 0

\* a budget branch that starts again from the default weights
adjust_ranking_priorities_mut(rankings, constraint_type) ==
    IF constraint_type = "budget"
    THEN [DefaultRankings EXCEPT !.budget_priority = 30, !.weather_priority = 25]
    ELSE IF constraint_type = "safety"
    THEN [rankings EXCEPT !.safety_priority = 35]
    ELSE IF constraint_type = "weather"
    THEN [rankings EXCEPT !.weather_priority = 45]
    ELSE rankings

adjust_ranking_priorities(rankings, constraint_type) ==
    IF constraint_type = "budget"
    THEN [rankings EXCEPT !.budget_priority = 30, !.weather_priority = 25]
    ELSE IF constraint_type = "safety"
    THEN [rankings EXCEPT !.safety_priority = 35]
    ELSE IF constraint_type = "weather"
    THEN [rankings EXCEPT !.weather_priority = 45]
    ELSE rankings

(***************************************************************************)
(* The destination catalog (destinations.models.Destination), read-only.   *)
(* Every row is active; the attributes are fixed functions of the id.      *)
(***************************************************************************)
budget_range_max(d) == d * 10000 + 5000
budget_range_min(d) == d * 10000 - 5000
typical_duration(d) == ((3 * d) % 5) + 3
popularity_score(d) == d
experience_type(d) == IF d % 3 = 0 THEN "mountain" ELSE "beach"
ActiveDestinations == DestIds

\* the members of set S as a list, smallest key first (QuerySet.order_by;
\* key is a function of the id and the keys used are distinct)
RECURSIVE OrderBy(_, _)
OrderBy(S, key) ==
    IF S = {} THEN <<>>
    ELSE LET d == CHOOSE x \in S : \A y \in S : key[x] <= key[y]
         IN  <<d>> \o OrderBy(S \ {d}, key)

ByPopularityDesc == [d \in DestIds |-> 0 - popularity_score(d)]
ByBudgetMin == [d \in DestIds |-> budget_range_min(d)]
ByDuration == [d \in DestIds |-> typical_duration(d)]

\* Python s[:n]
Take(s, n) == IF Len(s) <= n THEN s ELSE SubSeq(s, 1, n)

(***************************************************************************)
(* User utterances.  An utterance is its text together with what the       *)
(* code's substring tests and regular expressions find in it:              *)
(*   words      the keywords of the code's keyword lists that occur in it, *)
(*   activities the activity families whose keywords occur in it,          *)
(*   number     the first digit run (0: none), nlp_engine.py:202,          *)
(*   suffix     the multiplier word after that digit run ("k", "lakh"),    *)
(*   days       the digit run in front of "day(s)" (0: none),              *)
(*   ref_days, ref_budget  the same as read by handle_reference_query,     *)
(*   refpat     whether a pattern of _is_reference_query matches.          *)
(***************************************************************************)
Utterances == {
    [text |-> "show me beach destinations", words |-> {"show"}, activities |-> {"beach"}, suffix |-> "", number |-> 0, days |-> 0, ref_days |-> 0, ref_budget |-> 0, refpat |-> FALSE],
    [text |-> "show me beach destinations under 5k", words |-> {"show", "under"}, activities |-> {"beach"}, suffix |-> "k", number |-> 5, days |-> 0, ref_days |-> 0, ref_budget |-> 5, refpat |-> FALSE],
    [text |-> "show me destinations", words |-> {"show"}, activities |-> {}, suffix |-> "", number |-> 0, days |-> 0, ref_days |-> 0, ref_budget |-> 0, refpat |-> FALSE],
    [text |-> "under 30000 budget", words |-> {"budget", "under"}, activities |-> {}, suffix |-> "", number |-> 30000, days |-> 0, ref_days |-> 0, ref_budget |-> 30000, refpat |-> FALSE],
    [text |-> "under 20k", words |-> {"2", "under"}, activities |-> {}, suffix |-> "k", number |-> 20, days |-> 0, ref_days |-> 0, ref_budget |-> 20, refpat |-> FALSE],
    [text |-> "under 500", words |-> {"under"}, activities |-> {}, suffix |-> "", number |-> 500, days |-> 0, ref_days |-> 0, ref_budget |-> 500, refpat |-> FALSE],
    [text |-> "for 5 days", words |-> {"days"}, activities |-> {}, suffix |-> "", number |-> 5, days |-> 5, ref_days |-> 5, ref_budget |-> 0, refpat |-> FALSE],
    [text |-> "under 30k for 5 days", words |-> {"days", "under"}, activities |-> {}, suffix |-> "k", number |-> 30, days |-> 5, ref_days |-> 5, ref_budget |-> 30, refpat |-> FALSE],
    [text |-> "which of these for 5 days", words |-> {"days", "of these", "these", "which of these"}, activities |-> {}, suffix |-> "", number |-> 5, days |-> 5, ref_days |-> 5, ref_budget |-> 0, refpat |-> TRUE],
    [text |-> "tell me about the first one", words |-> {"first", "the first"}, activities |-> {}, suffix |-> "", number |-> 0, days |-> 0, ref_days |-> 0, ref_budget |-> 0, refpat |-> TRUE]}

Contains(u, keywords) == u.words \cap keywords # {}

(***************************************************************************)
(* HybridNLPEngine._extract_entities_spacy (spaCy model loaded): the       *)
(* entities the handlers read.  budget 0 and duration 0 stand for absent.  *)
(***************************************************************************)
\* amounts below 1000 are read as thousands
ScaleAmount(amount) == IF amount < 1000 THEN amount * 1000 ELSE amount

NoBudget == [type |-> "None", amount |-> 0, max |-> 0, min |-> 0]

ExtractBudget(u) ==
    IF u.number = 0 THEN NoBudget
    ELSE [type |-> "untyped", amount |-> ScaleAmount(u.number),
          max |-> ScaleAmount(u.number), min |-> 0]

\* the first person pattern that matches decides (0: person_count stays None)
PersonCount(u) ==
    IF Contains(u, {"solo", "alone", "myself"}) THEN 1
    ELSE IF Contains(u, {"couple", "two", "2"}) THEN 2
    ELSE IF Contains(u, {"family"}) THEN 4
    ELSE 0

ExtractEntities(u) ==
    [budget |-> ExtractBudget(u),
     duration |-> u.days,
     person_count |-> PersonCount(u),
     activities |-> u.activities,
     primary_activity |->
        IF Cardinality(u.activities) = 1
        THEN CHOOSE a \in u.activities : TRUE ELSE "None",
     filter_mode |-> IF Cardinality(u.activities) > 1 THEN "relaxed" ELSE "strict"]

(***************************************************************************)
(* ConversationContextManager.detect_topic_change, as far as               *)
(* handle_destination_search_v2 reads it: the action and the new topic.    *)
(***************************************************************************)
_extract_topic_from_message(u, entities) ==
    IF entities.activities # {}
    THEN CHOOSE a \in entities.activities : TRUE
    ELSE NoTopic

RelatedGroups ==
    {{"beach", "coastal", "island"},
     {"mountain", "hill", "trek", "adventure"},
     {"spiritual", "temple", "religious"},
     {"cultural", "historical", "heritage"},
     {"wildlife", "nature", "safari"}}

\* similarity in hundredths
_calculate_topic_similarity(topic1, topic2) ==
    IF topic1 = NoTopic \/ topic2 = NoTopic THEN 0
    ELSE IF topic1 = topic2 THEN 100
    ELSE IF \E group \in RelatedGroups : topic1 \in group /\ topic2 \in group THEN 60
    ELSE 0

\* a refinement test that looks at the keywords only, not at the entities
_is_refinement_query_mut(u, entities) ==
    \/ Contains(u, {"my budget", "under", "within", "only", "just", "need", "must",
                    "should", "prefer", "want", "days", "week", "weekend", "cheap",
                    "affordable"})
    \/ Contains(u, {"these", "those", "them", "which one", "the first", "any of"})

\* the extractor stores durations under 'durations': 'duration' is never set
_is_refinement_query(u, entities) ==
    \/ Contains(u, {"my budget", "under", "within", "only", "just", "need", "must",
                    "should", "prefer", "want", "days", "week", "weekend", "cheap",
                    "affordable"})
    \/ entities.budget # NoBudget
    \/ entities.person_count # 0
    \/ Contains(u, {"these", "those", "them", "which one", "the first", "any of"})

detect_topic_change(u, entities) ==
    LET current_topic == conversation_flow.current_topic
        new_topic == _extract_topic_from_message(u, entities)
        explicit_change ==
            Contains(u, {"actually", "instead", "rather", "change my mind",
                         "forget that", "never mind", "let's try", "how about",
                         "show me something else", "different", "other"})
        topic_similarity == _calculate_topic_similarity(current_topic, new_topic)
    IN  IF current_topic = NoTopic
        THEN [action |-> "fresh", new_topic |-> new_topic]
        ELSE IF explicit_change /\ topic_similarity < 30
        THEN [action |-> "clear", new_topic |-> new_topic]
        ELSE IF _is_refinement_query(u, entities)
        THEN [action |-> "refine", new_topic |-> current_topic]
        ELSE IF topic_similarity < 40 /\ new_topic # NoTopic
        THEN [action |-> "confirm", new_topic |-> new_topic]
        ELSE [action |-> "continue", new_topic |-> current_topic]

(***************************************************************************)
(* views.handle_destination_search_v2 (intent 'search').                   *)
(* No weather preference or time frame is ever extracted, so the results   *)
(* are ordered by popularity.                                              *)
(***************************************************************************)
\* apply_experience_filter / Destination.experience_types
MatchesExperience(d, activities) == experience_type(d) \in activities

\* activities whose experience types are filtered on: all extracted
\* activities, or the primary one alone in strict mode
SearchActivities(entities) ==
    IF entities.primary_activity # "None" /\ entities.filter_mode = "strict"
    THEN {entities.primary_activity}
    ELSE entities.activities

\* budget.get('amount') or budget.get('max')
SearchMaxBudget(budget) == IF budget.amount # 0 THEN budget.amount ELSE budget.max

\* a refine branch that filters the whole catalog
RefineFilter_mut(existing_dest_ids, entities) ==
    {d \in ActiveDestinations :
        /\ entities.budget # NoBudget =>
              budget_range_max(d) <= SearchMaxBudget(entities.budget)
        /\ entities.duration # 0 => typical_duration(d) <= entities.duration}

\* the refine branch filters the stored ids by the new constraints
RefineFilter(existing_dest_ids, entities) ==
    {d \in Range(existing_dest_ids) \cap ActiveDestinations :
        /\ entities.budget # NoBudget =>
              budget_range_max(d) <= SearchMaxBudget(entities.budget)
        /\ entities.duration # 0 => typical_duration(d) <= entities.duration}

\* fewer results than this trigger the relaxation pass
MinResults == 2

\* the relaxation pass: the whole catalog, budget cap times 1.2, duration + 1
RelaxedFilter(entities) ==
    {d \in ActiveDestinations :
        /\ entities.budget # NoBudget =>
              10 * budget_range_max(d) <= 12 * SearchMaxBudget(entities.budget)
        /\ entities.duration # 0 => typical_duration(d) <= entities.duration + 1
        /\ SearchActivities(entities) # {} =>
              MatchesExperience(d, SearchActivities(entities))}

FreshFilter(entities) ==
    {d \in ActiveDestinations :
        /\ SearchActivities(entities) # {} =>
              MatchesExperience(d, SearchActivities(entities))
        /\ entities.budget # NoBudget =>
              budget_range_max(d) <= SearchMaxBudget(entities.budget)
        /\ entities.duration # 0 => typical_duration(d) <= entities.duration}

\* constraint_applied of the refine branch: one dict, the duration
\* overwriting the budget when both are present
RefineConstraint(entities) ==
    IF entities.duration # 0 THEN Constraint("duration", entities.duration)
    ELSE IF entities.budget # NoBudget
    THEN Constraint("budget", SearchMaxBudget(entities.budget))
    ELSE EmptyConstraint

FreshConstraint(entities) ==
    IF SearchActivities(entities) # {} THEN Constraint("experience", 0)
    ELSE EmptyConstraint

\* the preference key f'likes_{activity}'
LikesKey(activity) == IF activity = "beach" THEN "likes_beach" ELSE "likes_mountain"

handle_destination_search_v2(u) ==
    LET entities == ExtractEntities(u)
        topic_detection == detect_topic_change(u, entities)
        is_refining == topic_detection.action = "refine"
        existing_dest_ids == IF is_refining THEN get_current_destinations ELSE <<>>
        refine == is_refining /\ existing_dest_ids # <<>>
        filtered == RefineFilter(existing_dest_ids, entities)
        relaxed == refine /\ Cardinality(filtered) < MinResults
        destinations == IF ~refine THEN FreshFilter(entities)
                        ELSE IF relaxed THEN RelaxedFilter(entities)
                        ELSE filtered
        constraint_applied == IF refine THEN RefineConstraint(entities)
                              ELSE FreshConstraint(entities)
        destination_ids == Take(OrderBy(destinations, ByPopularityDesc), 10)
        prefs1 == IF refine /\ entities.budget # NoBudget
                  THEN learn_preference(user_preferences_learned, "budget_conscious", 1)
                  ELSE user_preferences_learned
        prefs2 == IF refine /\ entities.duration # 0
                  THEN learn_preference(prefs1, "short_trips",
                                        Bool01(entities.duration <= 3))
                  ELSE prefs1
        prefs3 == IF destination_ids # <<>> /\ entities.activities # {}
                  THEN prefs2 \cup {[key |-> LikesKey(a), value |-> 1] : a \in entities.activities}
                  ELSE prefs2
    IN  /\ active_search' =
             update_active_search(active_search, u.text, destination_ids,
                                  constraint_applied)
        /\ conversation_flow' =
             IF destination_ids # <<>> /\ topic_detection.new_topic # NoTopic
             THEN update_topic(conversation_flow, topic_detection.new_topic)
             ELSE conversation_flow
        /\ user_preferences_learned' = prefs3
        /\ rankings_applied' =
             IF refine /\ entities.budget # NoBudget
             THEN adjust_ranking_priorities(rankings_applied, "budget")
             ELSE rankings_applied
        /\ turn' = [handler |-> "search",
                    text |-> u.text,
                    context |-> IF destination_ids = <<>> THEN "no_results_filtered"
                                ELSE "search_results_with_context",
                    mode |-> IF refine THEN "refine" ELSE "fresh",
                    relaxed |-> relaxed,
                    before |-> get_current_destinations,
                    destinations |-> destination_ids,
                    cap |-> 0,
                    resolved |-> NoId,
                    total_messages |-> turn.total_messages + 2]
        /\ UNCHANGED <<mentioned_entities, location_memory>>

(***************************************************************************)
(* BudgetHandler (intent 'budget', and the budget branch of                *)
(* handle_reference_query).                                                *)
(***************************************************************************)
\* BUDGET_CATEGORIES[category]['max'] for the category keyword in the text
CategoryBudget(u) ==
    IF Contains(u, {"cheap"})
    THEN [type |-> "category", amount |-> 0, max |-> 15000, min |-> 0]
    ELSE IF Contains(u, {"budget", "affordable"})
    THEN [type |-> "category", amount |-> 0, max |-> 30000, min |-> 15000]
    ELSE IF Contains(u, {"moderate", "mid-range"})
    THEN [type |-> "category", amount |-> 0, max |-> 60000, min |-> 30000]
    ELSE IF Contains(u, {"expensive", "premium"})
    THEN [type |-> "category", amount |-> 0, max |-> 100000, min |-> 60000]
    ELSE IF Contains(u, {"luxury", "luxurious"})
    THEN [type |-> "category", amount |-> 0, max |-> 250000, min |-> 100000]
    ELSE NoBudget

\* the amount patterns of _extract_budget_info, tried in order:
\* "<N>k", "<N> lakh", a run of four or more digits (0: no pattern matches)
MessageAmount(u) ==
    IF u.number = 0 THEN 0
    ELSE IF u.suffix = "k" THEN u.number * 1000
    ELSE IF u.suffix = "lakh" THEN u.number * 100000
    ELSE IF u.number >= 1000 THEN u.number
    ELSE 0

MessageBudget(u) ==
    IF Contains(u, {"under", "below", "max", "maximum", "up to", "within"})
    THEN [type |-> "max", amount |-> 0, max |-> MessageAmount(u), min |-> 0]
    ELSE IF Contains(u, {"above", "over", "minimum", "at least"})
    THEN [type |-> "min", amount |-> 0, max |-> 0, min |-> MessageAmount(u)]
    ELSE [type |-> "exact", amount |-> MessageAmount(u), max |-> MessageAmount(u),
          min |-> 0]

\* BudgetHandler._extract_budget_info: the budget entity when there is one,
\* else an amount pattern of the message, else a category keyword
_extract_budget_info(u, budget) ==
    IF budget # NoBudget THEN budget
    ELSE IF MessageAmount(u) # 0 THEN MessageBudget(u)
    ELSE CategoryBudget(u)

\* the budget cap of the filter: budget_info.get('max') or .get('amount')
BudgetCap(budget_info) ==
    IF budget_info.max # 0 THEN budget_info.max ELSE budget_info.amount

\* the budget filter of _refine_by_budget and _fresh_budget_search
BudgetFilter(S, budget_info) ==
    IF budget_info.type = "max" \/ budget_info.max # 0
    THEN {d \in S : budget_range_max(d) <= BudgetCap(budget_info)}
    ELSE IF budget_info.type = "min" \/ budget_info.min # 0
    THEN {d \in S : budget_range_min(d) >= budget_info.min}
    ELSE IF budget_info.amount # 0
    THEN {d \in S : /\ budget_range_min(d) <= budget_info.amount
                     /\ budget_range_max(d) >= budget_info.amount}
    ELSE S

\* the branch handle_budget_query takes
BudgetMode(budget_info, is_refining, current_dest_ids) ==
    IF budget_info = NoBudget /\ ~is_refining THEN "inquiry"
    ELSE IF is_refining /\ current_dest_ids # <<>> THEN "refine"
    ELSE "fresh"

\* experience families _fresh_budget_search filters on
BudgetActivities(entities) ==
    entities.activities \cup
      (IF conversation_flow.current_topic \in {"beach", "mountain"}
       THEN {conversation_flow.current_topic} ELSE {})

handle_budget_query(u, budget_entity) ==
    LET entities == ExtractEntities(u)
        budget_info == _extract_budget_info(u, budget_entity)
        current_dest_ids == get_current_destinations
        mode == BudgetMode(budget_info, active_search.is_refining, current_dest_ids)
        \* budget_info.get(...) on None raises; chat() answers with an error
        raises == mode # "inquiry" /\ budget_info = NoBudget
        refined == BudgetFilter(Range(current_dest_ids) \cap ActiveDestinations,
                                budget_info)
        fresh == {d \in BudgetFilter(ActiveDestinations, budget_info) :
                    BudgetActivities(entities) # {} =>
                        MatchesExperience(d, BudgetActivities(entities))}
        destination_ids ==
            IF mode = "refine" THEN Take(OrderBy(refined, ByBudgetMin), 8)
            ELSE Take(OrderBy(fresh, ByBudgetMin), 10)
        stores == mode # "inquiry" /\ ~raises /\ destination_ids # <<>>
        prefs ==
            IF mode = "refine" /\ ~raises
            THEN learn_preference(
                   learn_preference(user_preferences_learned, "budget_max",
                                    budget_info.max),
                   "budget_conscious", 1)
            ELSE IF mode = "fresh" /\ stores /\ budget_info.max < 30000
            THEN learn_preference(user_preferences_learned, "budget_conscious", 1)
            ELSE user_preferences_learned
    IN  /\ active_search' =
             IF stores
             THEN update_active_search(active_search, u.text, destination_ids,
                                       Constraint("budget", BudgetCap(budget_info)))
             ELSE active_search
        /\ user_preferences_learned' = prefs
        /\ rankings_applied' =
             IF mode = "refine" /\ ~raises
             THEN adjust_ranking_priorities(rankings_applied, "budget")
             ELSE rankings_applied
        /\ turn' = [handler |-> "budget",
                    text |-> u.text,
                    context |-> IF mode = "inquiry" THEN "budget_inquiry"
                                ELSE IF raises THEN "error"
                                ELSE IF destination_ids = <<>> THEN "no_budget_results"
                                ELSE IF mode = "refine" THEN "budget_refined"
                                ELSE "fresh_budget_search",
                    mode |-> mode,
                    relaxed |-> FALSE,
                    before |-> current_dest_ids,
                    destinations |-> IF raises \/ mode = "inquiry" THEN <<>>
                                     ELSE destination_ids,
                    cap |-> IF raises \/ mode = "inquiry" THEN 0
                            ELSE BudgetCap(budget_info),
                    resolved |-> NoId,
                    \* an exception leaves chat() before the session is updated
                    total_messages |-> IF raises THEN turn.total_messages
                                       ELSE turn.total_messages + 2]
        /\ UNCHANGED <<mentioned_entities, location_memory, conversation_flow>>

(***************************************************************************)
(* ConversationContextManager.resolve_reference                            *)
(***************************************************************************)
\* Python list indexing, 0-based: an index out of range raises IndexError
ListItem(ids, i) == IF i + 1 \in 1..Len(ids) THEN ids[i + 1] ELSE IndexError

\* the second item without the length test
SecondOf_mut(ids) == ListItem(ids, 1)

\* current_dest_ids[1] if len(current_dest_ids) > 1 else None
SecondOf(ids) == IF Len(ids) > 1 THEN ListItem(ids, 1) ELSE NoId

resolve_reference(u, current_dest_ids, last_discussed_destination) ==
    IF current_dest_ids = <<>> THEN NoId
    ELSE IF Contains(u, {"first", "1st", "top"}) THEN ListItem(current_dest_ids, 0)
    ELSE IF Contains(u, {"second", "2nd"}) THEN SecondOf(current_dest_ids)
    ELSE IF Contains(u, {"last"})
    THEN ListItem(current_dest_ids, Len(current_dest_ids) - 1)
    ELSE IF Contains(u, {"it", "that", "there"}) THEN last_discussed_destination
    ELSE NoId

(***************************************************************************)
(* views.handle_duration_filter                                            *)
(***************************************************************************)
DurationFilter(current_dest_ids, days) ==
    {d \in Range(current_dest_ids) \cap ActiveDestinations :
        typical_duration(d) <= days}

handle_duration_filter(u, days) ==
    LET current_dest_ids == get_current_destinations
        destination_ids ==
            Take(OrderBy(DurationFilter(current_dest_ids, days), ByDuration), 10)
        stores == current_dest_ids # <<>> /\ destination_ids # <<>>
    IN  /\ active_search' =
             IF stores
             THEN update_active_search(active_search, u.text, destination_ids,
                                       Constraint("duration", days))
             ELSE active_search
        /\ user_preferences_learned' =
             IF stores
             THEN learn_preference(user_preferences_learned, "prefers_short_trips",
                                   Bool01(days <= 4))
             ELSE user_preferences_learned
        /\ turn' = [handler |-> "duration_filter",
                    text |-> u.text,
                    context |-> IF current_dest_ids = <<>> THEN "no_active_search"
                                ELSE IF destination_ids = <<>> THEN "no_duration_match"
                                ELSE "duration_filtered",
                    mode |-> "refine",
                    relaxed |-> FALSE,
                    before |-> current_dest_ids,
                    destinations |-> IF current_dest_ids = <<>> THEN <<>>
                                     ELSE destination_ids,
                    cap |-> 0,
                    resolved |-> NoId,
                    total_messages |-> turn.total_messages + 2]
        /\ UNCHANGED <<mentioned_entities, location_memory, conversation_flow,
                       rankings_applied>>

(***************************************************************************)
(* views.handle_reference_query (intent 'reference', and intent            *)
(* 'duration' while the session has current destinations)                  *)
(***************************************************************************)
IsFilteringQuery(u) ==
    Contains(u, {"which of these", "which one", "of these", "from these",
                 "any of these", "these", "those"})

handle_reference_query(u) ==
    IF u.ref_days # 0 /\ IsFilteringQuery(u)
    THEN handle_duration_filter(u, u.ref_days)
    ELSE IF u.ref_budget # 0 /\ IsFilteringQuery(u)
    THEN handle_budget_query(u, [type |-> "max", amount |-> 0,
                                 max |-> ScaleAmount(u.ref_budget), min |-> 0])
    ELSE LET destination_id ==
                 resolve_reference(u, get_current_destinations,
                                   mentioned_entities.last_discussed_destination)
             found == destination_id \in ActiveDestinations
         IN  /\ IF found
                THEN update_location_context(destination_id, "discussed")
                ELSE UNCHANGED <<mentioned_entities, location_memory>>
             /\ turn' = [handler |-> "reference",
                    text |-> u.text,
                         context |-> IF found THEN "destination_details"
                                     ELSE IF destination_id # NoId
                                     THEN "destination_not_found"
                                     ELSE IF get_current_destinations = <<>>
                                     THEN "no_reference_found"
                                     ELSE "clarification_needed",
                         mode |-> "none",
                         relaxed |-> FALSE,
                         before |-> get_current_destinations,
                         destinations |-> <<>>,
                         cap |-> 0,
                         resolved |-> destination_id,
                         total_messages |-> turn.total_messages + 2]
             /\ UNCHANGED <<active_search, conversation_flow,
                            user_preferences_learned, rankings_applied>>

(***************************************************************************)
(* views.chat: one turn of the session, routed by the detected intent.     *)
(* The intent comes from process_message, which may take it from the       *)
(* external classification service, so any utterance can reach any         *)
(* handler.                                                                *)
(***************************************************************************)
\* session.total_messages += 2 per answered turn
CanChat == turn.total_messages < 2 * MaxTurns

SearchTurn ==
    /\ CanChat
    /\ \E u \in Utterances : handle_destination_search_v2(u)
    /\ UNCHANGED <<nlp, probe>>

BudgetTurn ==
    /\ CanChat
    /\ \E u \in Utterances : handle_budget_query(u, ExtractEntities(u).budget)
    /\ UNCHANGED <<nlp, probe>>

\* intent 'duration': handle_reference_query when the session has current
\* destinations, else handle_general_query
DurationTurn ==
    /\ CanChat
    /\ \E u \in Utterances :
          IF get_current_destinations # <<>>
          THEN handle_reference_query(u)
          ELSE /\ turn' = [NoTurn EXCEPT !.handler = "general", !.text = u.text,
                                         !.total_messages = turn.total_messages + 2]
               /\ UNCHANGED ctxvars
    /\ UNCHANGED <<nlp, probe>>

ReferenceTurn ==
    /\ CanChat
    /\ \E u \in Utterances : handle_reference_query(u)
    /\ UNCHANGED <<nlp, probe>>

NextTurn ==
    \/ SearchTurn
    \/ BudgetTurn
    \/ DurationTurn
    \/ ReferenceTurn

SpecTurn == Init /\ [][NextTurn]_vars

(***************************************************************************)
(* SpecCtx: the mutators of one session's context called in any order,     *)
(* one call completing before the next (single-writer turns).              *)
(***************************************************************************)
ApiConstraints == {NoneConstraint, EmptyConstraint, Constraint("budget", 30000)}

\* update_active_search does not look into the ids: lists over MaxListLen
\* ids stand for all lists of that length
ApiResults == IdLists(1..MaxListLen, MaxListLen)

UpdateActiveSearchCall ==
    /\ Len(active_search.results_evolution) < MaxSteps
    /\ \E query \in Queries, results \in ApiResults, constraint \in ApiConstraints :
          active_search' = update_active_search(active_search, query, results, constraint)
    /\ UNCHANGED <<mentioned_entities, location_memory, conversation_flow,
                   user_preferences_learned, rankings_applied, turn, nlp, probe>>

ClearContextCall ==
    /\ \E keep_preferences \in BOOLEAN : clear_context(keep_preferences)
    /\ UNCHANGED <<turn, nlp, probe>>

NextCtx ==
    \/ UpdateActiveSearchCall
    \/ ClearContextCall

SpecCtx == Init /\ [][NextCtx]_vars

(***************************************************************************)
(* SpecLoc: update_location_context called with any destination.           *)
(* Destination ids are opaque, so up to renaming a call names an id the    *)
(* location memory already holds or one it does not hold: the least such   *)
(* id stands for all of them.                                              *)
(***************************************************************************)
LocIds == 1..NumLocIds

InteractionTypes == {"discussed", "asked_about"}

HeldIds ==
    {location_memory.location_history[i].id :
        i \in 1..Len(location_memory.location_history)}
      \cup ({location_memory.last_discussed_location.id} \ {NoId})

OfferedIds ==
    HeldIds \cup
      (IF LocIds \ HeldIds = {} THEN {}
       ELSE {CHOOSE d \in LocIds \ HeldIds : \A e \in LocIds \ HeldIds : d <= e})

UpdateLocationCall ==
    /\ \E destination_id \in OfferedIds, interaction_type \in InteractionTypes :
          update_location_context(destination_id, interaction_type)
    /\ UNCHANGED <<active_search, conversation_flow, user_preferences_learned,
                   rankings_applied, turn, nlp, probe>>

NextLoc == UpdateLocationCall

SpecLoc == Init /\ [][NextLoc]_vars

(***************************************************************************)
(* SpecRef: resolve_reference applied to any message and any stored list.  *)
(* The message is given by the keywords of the function that occur in it.  *)
(***************************************************************************)
RefWords == {"first", "top", "second", "2nd", "last", "it", "there"}

InitRef ==
    /\ InitContext
    /\ turn = NoTurn
    /\ nlp = NewEngine(TRUE, TRUE)
    /\ probe \in [fn : {"resolve_reference"},
                  words : SUBSET RefWords,
                  ids : IdLists(DestIds, MaxRefLen),
                  last : DestIds \cup {NoId},
                  done : {FALSE},
                  out : {NoId}]

ResolveReferenceCall ==
    /\ probe.fn = "resolve_reference"
    /\ ~probe.done
    /\ probe' = [probe EXCEPT
                   !.done = TRUE,
                   !.out = resolve_reference([words |-> probe.words], probe.ids,
                                             probe.last)]
    /\ UNCHANGED <<ctxvars, turn, nlp>>

NextRef == ResolveReferenceCall

SpecRef == InitRef /\ [][NextRef]_vars

(***************************************************************************)
(* SpecBudget: the budget of an utterance "under <N><suffix>" on its way   *)
(* from the entity extraction to the cap of the budget filter.             *)
(***************************************************************************)
Suffixes == {"", "k", "lakh"}

\* the decimal digits of n include d
RECURSIVE HasDigit(_, _)
HasDigit(n, d) == n > 0 /\ (n % 10 = d \/ HasDigit(n \div 10, d))

UnderUtterance(number, suffix) ==
    [text |-> "under <N><suffix>",
     words |-> {"under"} \cup (IF HasDigit(number, 2) THEN {"2"} ELSE {}),
     activities |-> {},
     suffix |-> suffix, number |-> number, days |-> 0, ref_days |-> 0,
     ref_budget |-> number, refpat |-> FALSE]

InitBudget ==
    /\ InitContext
    /\ turn = NoTurn
    /\ nlp = NewEngine(TRUE, TRUE)
    /\ probe \in [fn : {"budget"},
                  number : 1..MaxAmount,
                  suffix : Suffixes,
                  done : {FALSE},
                  info : {NoBudget},
                  cap : {0}]

ExtractBudgetCall ==
    /\ probe.fn = "budget"
    /\ ~probe.done
    /\ LET u == UnderUtterance(probe.number, probe.suffix)
           budget_info == _extract_budget_info(u, ExtractEntities(u).budget)
       IN  probe' = [probe EXCEPT !.done = TRUE,
                                  !.info = budget_info,
                                  !.cap = BudgetCap(budget_info)]
    /\ UNCHANGED <<ctxvars, turn, nlp>>

NextBudget == ExtractBudgetCall

SpecBudget == InitBudget /\ [][NextBudget]_vars

(***************************************************************************)
(* HybridNLPEngine.process_message and learn_from_interaction.             *)
(* A message is its text together with what the code's tests find in it:   *)
(*   denylisted   a word of profanity_list occurs in it,                   *)
(*   refpat       a pattern of _is_reference_query matches it,             *)
(*   tier_intent  the intent the rule tiers of                             *)
(*                _fallback_intent_classification give it.                 *)
(***************************************************************************)
Messages == {
    [text |-> "show me beach destinations", denylisted |-> FALSE, refpat |-> FALSE, tier_intent |-> "search"],
    [text |-> "show me damn beach destinations", denylisted |-> TRUE, refpat |-> FALSE, tier_intent |-> "search"],
    [text |-> "tell me about the first one", denylisted |-> FALSE, refpat |-> TRUE, tier_intent |-> "reference"],
    [text |-> "damn, tell me about the first one", denylisted |-> TRUE, refpat |-> TRUE, tier_intent |-> "reference"]}

\* pairs of different texts whose SequenceMatcher ratio is >= 0.85
SimilarTexts ==
    {<<"show me beach destinations", "show me damn beach destinations">>,
     <<"show me damn beach destinations", "show me beach destinations">>,
     <<"tell me about the first one", "damn, tell me about the first one">>,
     <<"damn, tell me about the first one", "tell me about the first one">>}

_fuzzy_match(str1, str2) == str1 = str2 \/ <<str1, str2>> \in SimilarTexts

_is_reference_query(m) == m.refpat

\* the rule tiers, then the profanity check that overrides them
_fallback_intent_classification(m) ==
    IF m.denylisted
    THEN [intent |-> "inappropriate", is_safe |-> FALSE,
          safety_issues |-> {"vulgar"}]
    ELSE [intent |-> m.tier_intent, is_safe |-> TRUE, safety_issues |-> {}]

\* the intent of the first learned phrase, in insertion order, that the
\* message matches ("None": no phrase matches)
_check_learned_patterns(phrase_mappings, m) ==
    LET hits == {i \in 1..Len(phrase_mappings) :
                    _fuzzy_match(m.text, phrase_mappings[i].phrase)}
    IN  IF hits = {} THEN "None"
        ELSE phrase_mappings[CHOOSE i \in hits : \A j \in hits : i <= j].intent

\* what a call of the external classifier does: it fails ("error"), it
\* answers in JSON with an intent and a safety flag of its own ("answer"),
\* or it answers with text that is not JSON ("text"), of which the words
\* that _parse_gemini_text_response looks for are kept
GeminiIntents == {"search", "inappropriate"}

TextMentions == {"inappropriate", "search"}

GeminiOutcomes ==
    {[kind |-> "error", intent |-> "None", is_safe |-> TRUE, mentions |-> {},
      safety_issues |-> {}]}
      \cup [kind : {"answer"}, intent : GeminiIntents, is_safe : BOOLEAN,
            mentions : {{}}, safety_issues : {{}}]
      \cup [kind : {"text"}, intent : {"None"}, is_safe : {TRUE},
            mentions : SUBSET TextMentions, safety_issues : {{}}]

_parse_gemini_text_response(outcome) ==
    IF outcome.mentions \cap {"inappropriate", "unsafe"} # {}
    THEN [intent |-> "inappropriate", is_safe |-> FALSE,
          safety_issues |-> {"content_violation"}]
    ELSE IF outcome.mentions \cap {"search", "destination"} # {}
    THEN [intent |-> "search", is_safe |-> TRUE, safety_issues |-> {}]
    ELSE IF "budget" \in outcome.mentions
    THEN [intent |-> "budget", is_safe |-> TRUE, safety_issues |-> {}]
    ELSE [intent |-> "general", is_safe |-> TRUE, safety_issues |-> {}]

_analyze_with_gemini(engine, m, outcome) ==
    IF ~engine.gemini_model \/ outcome.kind = "error"
    THEN _fallback_intent_classification(m)
    ELSE IF outcome.kind = "text"
    THEN _parse_gemini_text_response(outcome)
    ELSE [intent |-> outcome.intent, is_safe |-> outcome.is_safe,
          safety_issues |-> outcome.safety_issues]

\* the result cache, keyed by the lower-cased message
_check_cache(cache, m) ==
    IF \E r \in cache : r.text = m.text
    THEN CHOOSE r \in cache : r.text = m.text
    ELSE NoResult

_cache_result(cache, m, result) ==
    {r \in cache : r.text # m.text} \cup {result}

\* self._fallback_entity_extraction is not defined: the call raises
Raised(m) == [status |-> "raised", text |-> m.text, intent |-> "None",
              is_safe |-> TRUE, safety_issues |-> {}, source |-> "None"]

process_message(engine, m, current_destinations, outcome) ==
    LET cached_result == _check_cache(engine.cache, m)
        learned_intent == _check_learned_patterns(engine.phrase_mappings, m)
        gemini_result == _analyze_with_gemini(engine, m, outcome)
        final_result ==
            [status |-> "returned",
             text |-> m.text,
             intent |-> IF learned_intent # "None" THEN learned_intent
                        ELSE gemini_result.intent,
             is_safe |-> gemini_result.is_safe,
             safety_issues |-> gemini_result.safety_issues,
             source |-> IF learned_intent # "None" THEN "learned" ELSE "gemini"]
    IN  IF cached_result # NoResult
        THEN [engine EXCEPT !.result = cached_result]
        ELSE IF ~engine.nlp
        THEN [engine EXCEPT !.result = Raised(m)]
        ELSE IF current_destinations # <<>> /\ _is_reference_query(m)
        THEN [engine EXCEPT !.result =
                 [status |-> "returned", text |-> m.text, intent |-> "reference",
                  is_safe |-> TRUE, safety_issues |-> {},
                  source |-> "reference_detection"]]
        ELSE [engine EXCEPT !.result = final_result,
                            !.cache = _cache_result(engine.cache, m, final_result)]

\* phrase_mappings[message_clean] = intent: a dict keeps the position of a
\* key it already holds
SetPhrase(phrase_mappings, phrase, intent) ==
    IF \E i \in 1..Len(phrase_mappings) : phrase_mappings[i].phrase = phrase
    THEN [i \in 1..Len(phrase_mappings) |->
            IF phrase_mappings[i].phrase = phrase
            THEN [phrase |-> phrase, intent |-> intent]
            ELSE phrase_mappings[i]]
    ELSE Append(phrase_mappings, [phrase |-> phrase, intent |-> intent])

\* correction_history keeps this many entries
CorrectionCap == 100

learn_from_interaction(engine, m, detected_intent, user_feedback, correct_intent) ==
    IF correct_intent # "None" /\ correct_intent # detected_intent
    THEN [engine EXCEPT
            !.phrase_mappings = SetPhrase(@, m.text, correct_intent),
            !.correction_history =
                LastN(Append(@, [message |-> m.text,
                                 wrong_intent |-> detected_intent,
                                 correct_intent |-> correct_intent]),
                      CorrectionCap)]
    ELSE IF user_feedback = "positive"
    THEN [engine EXCEPT !.phrase_mappings = SetPhrase(@, m.text, detected_intent)]
    ELSE engine

(***************************************************************************)
(* SpecNlp: one engine, built with or without the spaCy model and the      *)
(* external classifier, whose methods are called as views.chat and         *)
(* views.feedback call them; cached results expire.                        *)
(***************************************************************************)
LearnedIntents == {"search", "reference"}

InitNlp ==
    /\ InitContext
    /\ turn = NoTurn
    /\ probe = NoProbe
    /\ \E spacy_loaded \in BOOLEAN, gemini_configured \in BOOLEAN :
          nlp = NewEngine(spacy_loaded, gemini_configured)

ProcessMessageCall ==
    /\ nlp.calls < MaxCalls
    /\ \E m \in Messages, current_destinations \in IdLists(DestIds, 1),
          outcome \in GeminiOutcomes :
          nlp' = [process_message(nlp, m, current_destinations, outcome)
                    EXCEPT !.calls = @ + 1]
    /\ UNCHANGED <<ctxvars, turn, probe>>

LearnFromInteractionCall ==
    /\ nlp.calls < MaxCalls
    /\ \E m \in Messages, detected_intent \in LearnedIntents,
          user_feedback \in {"None", "positive", "negative"},
          correct_intent \in {"None"} \cup LearnedIntents :
          nlp' = [learn_from_interaction(nlp, m, detected_intent, user_feedback,
                                         correct_intent)
                    EXCEPT !.calls = @ + 1]
    /\ UNCHANGED <<ctxvars, turn, probe>>

\* cache.set(cache_key, result, timeout=3600): the entry expires
CacheExpire ==
    /\ \E r \in nlp.cache : nlp' = [nlp EXCEPT !.cache = @ \ {r}]
    /\ UNCHANGED <<ctxvars, turn, probe>>

NextNlp ==
    \/ ProcessMessageCall
    \/ LearnFromInteractionCall
    \/ CacheExpire

SpecNlp == InitNlp /\ [][NextNlp]_vars

(***************************************************************************)
(* C1: every update_active_search call appends exactly one entry to        *)
(* results_evolution, numbered one more than the entry before it (1 for    *)
(* the first entry of a search), so the steps of the current search are    *)
(* exactly 1..n.                                                           *)
(***************************************************************************)
StepsAreOneToN(evolution) == \A i \in 1..Len(evolution) : evolution[i].step = i

C1_StepsIncrementByOne ==
    [][LET old == active_search.results_evolution
           new == active_search'.results_evolution
       IN  (new # old /\ new # <<>>) =>
              /\ Len(new) = Len(old) + 1
              /\ SubSeq(new, 1, Len(old)) = old
              /\ new[Len(new)].step =
                   (IF old = <<>> THEN 1 ELSE old[Len(old)].step + 1)
              /\ StepsAreOneToN(new)]_vars

C1_Witness ==
    /\ Len(active_search.results_evolution) = MaxSteps
    /\ active_search.results_evolution[MaxSteps].step = MaxSteps

(***************************************************************************)
(* C10: location_history holds at most 10 entries, no two with the same    *)
(* destination id, and last_discussed_location, when set, names an id      *)
(* that is in location_history.                                            *)
(***************************************************************************)
C10_HistoryBoundedDeduped ==
    LET history == location_memory.location_history
        last == location_memory.last_discussed_location
    IN  /\ Len(history) <= 10
        /\ \A i, j \in 1..Len(history) : i # j => history[i].id # history[j].id
        /\ last # NoLocation => InHistory(history, last.id)

\* an eleventh destination was discussed and the oldest entry was dropped
C10_Witness ==
    LET history == location_memory.location_history
    IN  /\ Len(history) = 10
        /\ history[1].id # 1
        /\ location_memory.last_discussed_location.id = history[3].id

(***************************************************************************)
(* C2: a refine step (budget refinement, duration refinement, or the       *)
(* refine branch of the destination search when no relaxation pass fired)  *)
(* stores a result id list that is a subset of the current ids it started  *)
(* from, so the list does not grow; it grows only when the relaxation      *)
(* pass ran.                                                               *)
(***************************************************************************)
C2_RefineNeverGrows ==
    [][LET before == active_search.current_destination_ids
           after == active_search'.current_destination_ids
       IN  /\ (turn'.mode = "refine" /\ ~turn'.relaxed) =>
                 /\ Range(after) \subseteq Range(before)
                 /\ Len(after) <= Len(before)
           /\ (turn'.mode = "refine" /\ Len(after) > Len(before)) => turn'.relaxed]_vars

\* a refinement narrowed a stored list to a shorter, non-empty one
C2_Witness ==
    /\ turn.mode = "refine"
    /\ ~turn.relaxed
    /\ turn.context \in {"budget_refined", "duration_filtered",
                         "search_results_with_context"}
    /\ active_search.current_destination_ids # <<>>
    /\ Len(active_search.current_destination_ids) < Len(turn.before)

(***************************************************************************)
(* C3: after every update_active_search call the stored is_refining flag   *)
(* is true iff that step added a constraint on top of a non-empty prior    *)
(* result set; after the first search of a conversation it is false.       *)
(***************************************************************************)
C3_IsRefiningIffConstraintOnPrior ==
    [][LET called == active_search'.results_evolution # active_search.results_evolution
           added == Len(active_search'.constraints_applied)
                      > Len(active_search.constraints_applied)
           prior == active_search.current_destination_ids
       IN  called => (active_search'.is_refining <=> (added /\ prior # <<>>))]_vars

(***************************************************************************)
(* C4: after a fresh search stored the ids R, a budget-only turn           *)
(* "under B" refines R: the stored ids afterwards are a subset of R, each  *)
(* has budget_max <= B, and is_refining is true; a following "tell me      *)
(* about the first one" resolves to the first id of the stored list.       *)
(***************************************************************************)
UtteranceOf(text) == CHOOSE u \in Utterances : u.text = text

\* the amount an "under <N><suffix>" phrase states
StatedAmount(number, suffix) ==
    IF suffix = "k" THEN number * 1000
    ELSE IF suffix = "lakh" THEN number * 100000
    ELSE number

\* "under <N><suffix>" and nothing else: no search verb, activity or duration
IsBudgetOnly(u) ==
    /\ Contains(u, {"under"})
    /\ u.number # 0
    /\ u.days = 0
    /\ u.activities = {}
    /\ ~Contains(u, {"show", "find", "search"})
    /\ ~IsFilteringQuery(u)

StoredFreshSearch ==
    /\ turn.mode = "fresh"
    /\ turn.context \in {"search_results_with_context", "fresh_budget_search"}
    /\ active_search.current_destination_ids # <<>>

C4_BudgetTurnRefinesThenFirst ==
    [][/\ (StoredFreshSearch /\ turn'.handler = "budget"
             /\ IsBudgetOnly(UtteranceOf(turn'.text))) =>
              LET u == UtteranceOf(turn'.text)
                  after == active_search'.current_destination_ids
              IN  /\ Range(after) \subseteq Range(active_search.current_destination_ids)
                  /\ \A d \in Range(after) :
                        budget_range_max(d) <= StatedAmount(u.number, u.suffix)
                  /\ active_search'.is_refining
       /\ (turn.handler = "budget" /\ turn'.handler = "reference"
             /\ turn'.text = "tell me about the first one"
             /\ active_search.current_destination_ids # <<>>) =>
              turn'.resolved = active_search.current_destination_ids[1]]_vars

(***************************************************************************)
(* C9: current_destination_ids is the id list of the latest successful     *)
(* search or filter step: a search or refinement that finds no             *)
(* destination leaves the stored ids as they were.                         *)
(***************************************************************************)
C9_FailedStepKeepsResultIds ==
    [][(turn'.context \in {"no_results_filtered", "no_budget_results",
                           "no_duration_match"}) =>
          active_search'.current_destination_ids
            = active_search.current_destination_ids]_vars

(***************************************************************************)
(* C5: resolve_reference never raises; it returns none when the list is    *)
(* empty; "first" gives the first id, "second" the second id when the      *)
(* list has at least two and none otherwise, "last" the final id; every    *)
(* id returned for an ordinal is in the list.                              *)
(***************************************************************************)
FirstWords == {"first", "top"}
SecondWords == {"second", "2nd"}
LastWords == {"last"}
OrdinalWords == FirstWords \cup SecondWords \cup LastWords

C5_ResolveReferenceOrdinals ==
    (probe.fn = "resolve_reference" /\ probe.done) =>
        LET L == probe.ids
            ordinals == probe.words \cap OrdinalWords
        IN  /\ probe.out # IndexError
            /\ L = <<>> => probe.out = NoId
            /\ (L # <<>> /\ ordinals # {} /\ ordinals \subseteq FirstWords) =>
                   probe.out = L[1]
            /\ (L # <<>> /\ ordinals # {} /\ ordinals \subseteq SecondWords) =>
                   probe.out = (IF Len(L) >= 2 THEN L[2] ELSE NoId)
            /\ (L # <<>> /\ ordinals # {} /\ ordinals \subseteq LastWords) =>
                   probe.out = L[Len(L)]
            /\ ordinals # {} => probe.out \in Range(L) \cup {NoId}

\* "second" asked of a one-item list: out of range, none is returned
C5_Witness ==
    /\ probe.fn = "resolve_reference"
    /\ probe.done
    /\ probe.words = {"second"}
    /\ Len(probe.ids) = 1
    /\ probe.out = NoId

(***************************************************************************)
(* C6: for every message that holds a denylisted word, process_message     *)
(* returns intent "inappropriate" with is_safe false, whatever else        *)
(* applies to the message.                                                 *)
(***************************************************************************)
MessageOf(text) == CHOOSE m \in Messages : m.text = text

C6_DenylistOverrideAbsolute ==
    (nlp.result.status = "returned" /\ MessageOf(nlp.result.text).denylisted) =>
        /\ nlp.result.intent = "inappropriate"
        /\ ~nlp.result.is_safe

(***************************************************************************)
(* C7: for an utterance "under <N><suffix>" the budget that reaches the    *)
(* filter has type max and a max of N scaled by the suffix: N, N x 1000    *)
(* for "k", N x 100000 for "lakh".                                         *)
(***************************************************************************)
C7_UnderAmountIsScaledMax ==
    (probe.fn = "budget" /\ probe.done) =>
        /\ probe.info.type = "max"
        /\ probe.cap = StatedAmount(probe.number, probe.suffix)

(***************************************************************************)
(* C8: entity extraction never raises, also when the spaCy model is not    *)
(* installed: process_message still returns a result.                      *)
(***************************************************************************)
C8_ExtractionNeverRaises == nlp.result.status # "raised"

(***************************************************************************)
(* SpecMgr: every mutator of ConversationContextManager called in any      *)
(* order on one session, one call completing before the next.              *)
(***************************************************************************)
\* update_active_search is called at most this many times
MaxMgrSteps == 2

\* clear_context archives a topic at most this many times
MaxSwitches == 1

MgrResults == {<<>>, <<1>>, <<2, 1>>}

MgrConstraints == {NoneConstraint, Constraint("budget", 30000)}

MgrIds == {1, 2}

MgrTopics == {"beach", "mountain"}

MgrUpdateActiveSearch ==
    /\ Len(active_search.results_evolution) < MaxMgrSteps
    /\ \E results \in MgrResults, constraint \in MgrConstraints :
          active_search' = update_active_search(active_search,
                              "show me beach destinations", results, constraint)
    /\ UNCHANGED <<mentioned_entities, location_memory, conversation_flow,
                   user_preferences_learned, rankings_applied, turn, nlp, probe>>

MgrUpdateLocation ==
    /\ \E destination_id \in MgrIds :
          update_location_context(destination_id, "discussed")
    /\ UNCHANGED <<active_search, conversation_flow, user_preferences_learned,
                   rankings_applied, turn, nlp, probe>>

MgrUpdateTopic ==
    /\ \E new_topic \in MgrTopics :
          conversation_flow' = update_topic(conversation_flow, new_topic)
    /\ UNCHANGED <<active_search, mentioned_entities, location_memory,
                   user_preferences_learned, rankings_applied, turn, nlp, probe>>

MgrLearnPreference ==
    /\ user_preferences_learned' =
          learn_preference(user_preferences_learned, "likes_beach", 1)
    /\ UNCHANGED <<active_search, mentioned_entities, location_memory,
                   conversation_flow, rankings_applied, turn, nlp, probe>>

\* the constraint kinds adjust_ranking_priorities names, and one it does not
AdjustKinds == {"budget", "safety", "weather", "duration"}

MgrAdjustRanking ==
    /\ \E constraint_type \in AdjustKinds :
          rankings_applied' = adjust_ranking_priorities(rankings_applied,
                                                        constraint_type)
    /\ UNCHANGED <<active_search, mentioned_entities, location_memory,
                   conversation_flow, user_preferences_learned, turn, nlp, probe>>

MgrClearContext ==
    /\ conversation_flow.topic_switches < MaxSwitches
    /\ \E keep_preferences \in BOOLEAN : clear_context(keep_preferences)
    /\ UNCHANGED <<turn, nlp, probe>>

NextMgr ==
    \/ MgrUpdateActiveSearch
    \/ MgrUpdateLocation
    \/ MgrUpdateTopic
    \/ MgrLearnPreference
    \/ MgrAdjustRanking
    \/ MgrClearContext

SpecMgr == Init /\ [][NextMgr]_vars

(***************************************************************************)
(* C11: a clear_context call leaves current_topic unset, so that the next  *)
(* detect_topic_change answers 'fresh' for every utterance, and leaves     *)
(* location_memory.last_discussed_location unset.                          *)
(***************************************************************************)
ClearStep(keep_preferences) ==
    clear_context(keep_preferences) /\ UNCHANGED <<turn, nlp, probe>>

C11_ClearResetsTopicAndLocation ==
    [][(\E keep_preferences \in BOOLEAN : ClearStep(keep_preferences)) =>
          /\ conversation_flow'.current_topic = NoTopic
          /\ \A u \in Utterances :
                (detect_topic_change(u, ExtractEntities(u)).action = "fresh")'
          /\ location_memory'.last_discussed_location = NoLocation]_vars

(***************************************************************************)
(* C12: clear_context(keep_preferences = True) leaves the learned          *)
(* preferences and the ranking weights as they were; with                  *)
(* keep_preferences = False it empties the learned preferences and leaves  *)
(* the ranking weights as they were; either way active_search is back at   *)
(* its initial value.                                                      *)
(***************************************************************************)
C12_ClearKeepsPreferencesAndRankings ==
    [][\A keep_preferences \in BOOLEAN :
          ClearStep(keep_preferences) =>
             /\ rankings_applied' = rankings_applied
             /\ user_preferences_learned' =
                   IF keep_preferences THEN user_preferences_learned ELSE {}
             /\ active_search' = FreshActiveSearch]_vars

\* a clear has archived a topic, the search is back at its initial value,
\* and the preferences learned and the weights adjusted before it are there
C12_Witness ==
    /\ conversation_flow.topic_switches > 0
    /\ active_search = FreshActiveSearch
    /\ user_preferences_learned # {}
    /\ rankings_applied # DefaultRankings

(***************************************************************************)
(* C13: whenever the current result list is non-empty, a bare pronoun      *)
(* ('it', 'that', 'there') resolves to the id stored in                    *)
(* location_memory.last_discussed_location, after any sequence of          *)
(* update_location_context, update_active_search and clear_context calls.  *)
(***************************************************************************)
BarePronouns == {"it", "that", "there"}

C13_PronounResolvesToLastDiscussed ==
    get_current_destinations # <<>> =>
       \A pronoun \in BarePronouns :
          resolve_reference([words |-> {pronoun}], get_current_destinations,
                            mentioned_entities.last_discussed_destination)
             = location_memory.last_discussed_location.id

(***************************************************************************)
(* IntentClassifier.classify_intent. No trained model file is loaded, so   *)
(* a text no pattern matches gets the default intent.                      *)
(***************************************************************************)
\* the first intent of intent_patterns, in insertion order, one of whose
\* patterns matches the text ("None": no pattern matches)
_rule_based_classification(m) ==
    IF m.text \in {"tell me about the first one",
                   "damn, tell me about the first one"}
    THEN "reference"
    ELSE "None"

\* a pattern of intent_patterns['reference'] matches the text
MatchesReferencePattern(m) == _rule_based_classification(m) = "reference"

classify_intent(m, has_context) ==
    IF has_context /\ MatchesReferencePattern(m)
    THEN [intent |-> "reference", method |-> "rule_based_priority"]
    ELSE IF _rule_based_classification(m) # "None"
    THEN [intent |-> _rule_based_classification(m), method |-> "rule_based"]
    ELSE [intent |-> "general_info", method |-> "default"]

\* one process_message call, as ProcessMessageCall makes it
ProcessStep(m, current_destinations, outcome) ==
    nlp' = [process_message(nlp, m, current_destinations, outcome)
              EXCEPT !.calls = @ + 1]

(***************************************************************************)
(* C14: for an utterance processed with an empty current result list,      *)
(* neither process_message (the local fallback included) nor               *)
(* IntentClassifier.classify_intent without context yields 'reference'.    *)
(***************************************************************************)
C14_ReferenceOnlyWithActiveResults ==
    [][\A m \in Messages, outcome \in GeminiOutcomes :
          ProcessStep(m, <<>>, outcome) =>
             /\ nlp'.result.intent # "reference"
             /\ classify_intent(m, FALSE).intent # "reference"]_vars

(***************************************************************************)
(* SpecTopic: detect_topic_change applied, repeatedly, to one utterance    *)
(* in a session with a given current topic.  The utterance is drawn by     *)
(* what the code's tests find in it: keywords, activity family, amount.    *)
(***************************************************************************)
\* detect_topic_change is called at most this many times
MaxDetectCalls == 2

ChangeWords == {"actually"}

ConstraintWords == {"under"}

PluralReferenceWords == {"these"}

PersonWords == {"couple"}

TopicWords == ChangeWords \cup ConstraintWords \cup PluralReferenceWords \cup PersonWords

TopicActivities == {{}, {"beach"}, {"mountain"}, {"adventure"}}

TopicAmounts == {0, 30000}

CurrentTopics == {NoTopic, "beach", "mountain"}

TopicUtterance(words, activities, number) ==
    [text |-> "<utterance>", words |-> words, activities |-> activities,
     suffix |-> "", number |-> number, days |-> 0, ref_days |-> 0,
     ref_budget |-> number, refpat |-> FALSE]

InitTopic ==
    /\ probe \in [fn : {"detect_topic_change"},
                  words : SUBSET TopicWords,
                  activities : TopicActivities,
                  number : TopicAmounts,
                  current_topic : CurrentTopics,
                  out : {<<>>}]
    /\ active_search = FreshActiveSearch
    /\ mentioned_entities = FreshMentionedEntities
    /\ location_memory = FreshLocationMemory
    /\ conversation_flow = update_topic(FreshConversationFlow, probe.current_topic)
    /\ user_preferences_learned = {}
    /\ rankings_applied = DefaultRankings
    /\ turn = NoTurn
    /\ nlp = NewEngine(TRUE, TRUE)

DetectTopicChangeCall ==
    /\ probe.fn = "detect_topic_change"
    /\ Len(probe.out) < MaxDetectCalls
    /\ LET u == TopicUtterance(probe.words, probe.activities, probe.number)
       IN  probe' = [probe EXCEPT
                       !.out = Append(@, detect_topic_change(u, ExtractEntities(u)))]
    /\ UNCHANGED <<ctxvars, turn, nlp>>

NextTopic == DetectTopicChangeCall

SpecTopic == InitTopic /\ [][NextTopic]_vars

(***************************************************************************)
(* C15: detect_topic_change is a deterministic, read-only function of      *)
(* (utterance, entities, current_topic): repeated calls give the same      *)
(* output, the context stays as it was, and the action is the first rule   *)
(* that matches in the order fresh (no current topic), clear (explicit     *)
(* change phrase and similarity < 0.3), refine (constraint entity,         *)
(* constraint keyword or plural reference), confirm, continue; so an       *)
(* utterance with a constraint that is not a clear is 'refine', never      *)
(* 'confirm' or 'continue'.                                                *)
(***************************************************************************)
ProbedTopic ==
    IF probe.activities = {} THEN NoTopic ELSE CHOOSE a \in probe.activities : TRUE

ProbedSimilarity == _calculate_topic_similarity(probe.current_topic, ProbedTopic)

ProbedExplicitClear ==
    probe.words \cap ChangeWords # {} /\ ProbedSimilarity < 30

ProbedConstraint ==
    \/ probe.number # 0
    \/ probe.words \cap (ConstraintWords \cup PluralReferenceWords \cup PersonWords) # {}

RuleOrderActions ==
    IF probe.current_topic = NoTopic THEN {"fresh"}
    ELSE IF ProbedExplicitClear THEN {"clear"}
    ELSE IF ProbedConstraint THEN {"refine"}
    ELSE {"confirm", "continue"}

C15_DetectTopicChangeRuleOrder ==
    probe.fn = "detect_topic_change" =>
       /\ \A i \in 1..Len(probe.out) :
             /\ probe.out[i].action \in RuleOrderActions
             /\ probe.out[i] = probe.out[1]
       /\ conversation_flow = update_topic(FreshConversationFlow, probe.current_topic)
       /\ active_search = FreshActiveSearch
       /\ mentioned_entities = FreshMentionedEntities
       /\ location_memory = FreshLocationMemory
       /\ user_preferences_learned = {}
       /\ rankings_applied = DefaultRankings

\* twice 'refine' for an amount, said without any keyword, about a topic
\* unrelated to the current one
C15_Witness ==
    /\ probe.fn = "detect_topic_change"
    /\ Len(probe.out) = 2
    /\ probe.out[2].action = "refine"
    /\ probe.words = {}
    /\ probe.number # 0
    /\ probe.current_topic = "beach"
    /\ probe.activities = {"mountain"}

(***************************************************************************)
(* C16: detect_topic_change answers 'confirm' only when the similarity     *)
(* between the current topic and the new topic lies between 0.3 and 0.4    *)
(* and the utterance is not an explicit clear.                             *)
(***************************************************************************)
C16_ConfirmOnlyBetweenThresholds ==
    probe.fn = "detect_topic_change" =>
       \A i \in 1..Len(probe.out) :
          probe.out[i].action = "confirm" =>
             /\ ProbedSimilarity >= 30
             /\ ProbedSimilarity <= 40
             /\ ~ProbedExplicitClear

(***************************************************************************)
(* C17: a result cached for an utterance in a session without active       *)
(* results is never returned for the same utterance in a session with      *)
(* active results.  A result is cached for a referring utterance only      *)
(* when the session has no active results (with active results the call    *)
(* returns before it caches), so for such an utterance every cached        *)
(* result is one the claim speaks of.                                      *)
(***************************************************************************)
ActiveResults == IdLists(DestIds, 1) \ {<<>>}

C17_CacheKeyedBySessionContext ==
    [][\A m \in Messages, current_destinations \in ActiveResults,
          outcome \in GeminiOutcomes :
          (/\ _is_reference_query(m)
           /\ _check_cache(nlp.cache, m) # NoResult
           /\ ProcessStep(m, current_destinations, outcome)) =>
             nlp'.result # _check_cache(nlp.cache, m)]_vars

(***************************************************************************)
(* C18: after learn_from_interaction has recorded a correction M -> C, a   *)
(* process_message(M) call with no active results and no denylist hit      *)
(* returns intent C with source 'learned', whether or not M had been       *)
(* cached before the correction.  The call is taken in a state whose       *)
(* latest correction is M -> C and whose mapping of M is still C.          *)
(***************************************************************************)
\* phrase_mappings.get(text) ("None": no such key)
MappedIntent(phrase_mappings, text) ==
    LET at == {i \in 1..Len(phrase_mappings) : phrase_mappings[i].phrase = text}
    IN  IF at = {} THEN "None" ELSE phrase_mappings[CHOOSE i \in at : TRUE].intent

LatestCorrection ==
    nlp.correction_history[Len(nlp.correction_history)]

C18_CorrectionWinsNextCall ==
    [][\A m \in Messages, outcome \in GeminiOutcomes :
          (/\ nlp.nlp
           /\ ~m.denylisted
           /\ nlp.correction_history # <<>>
           /\ LatestCorrection.message = m.text
           /\ MappedIntent(nlp.phrase_mappings, m.text) = LatestCorrection.correct_intent
           /\ ProcessStep(m, <<>>, outcome)) =>
             /\ nlp'.result.intent = LatestCorrection.correct_intent
             /\ nlp'.result.source = "learned"]_vars

(***************************************************************************)
(* SpecLearn: learn_from_interaction over many distinct utterances, as     *)
(* views.chat calls it after every handled turn (reinforcement) and        *)
(* views.feedback after a correction.  Utterances are opaque to the        *)
(* store, so they are numbered; up to renaming a turn says the first       *)
(* utterance again or one never said before, and the corrections are of    *)
(* the first utterance.                                                    *)
(***************************************************************************)
\* distinct utterances said in the session
NumPhrases == 101

Phrase(i) == [text |-> i]

LearnedPhrases == {nlp.phrase_mappings[i].phrase : i \in 1..Len(nlp.phrase_mappings)}

OfferedPhrases ==
    LET unheld == (1..NumPhrases) \ LearnedPhrases
    IN  {1} \cup (IF unheld = {} THEN {}
                  ELSE {CHOOSE i \in unheld : \A j \in unheld : i <= j})

ChatLearnCall ==
    /\ \E i \in OfferedPhrases :
          nlp' = learn_from_interaction(nlp, Phrase(i), "search", "positive", "None")
    /\ UNCHANGED <<ctxvars, turn, probe>>

FeedbackCorrectionCall ==
    /\ nlp' = learn_from_interaction(nlp, Phrase(1), "search", "correction", "reference")
    /\ UNCHANGED <<ctxvars, turn, probe>>

NextLearn ==
    \/ ChatLearnCall
    \/ FeedbackCorrectionCall

SpecLearn == Init /\ [][NextLearn]_vars

(***************************************************************************)
(* C19: after any number of learn_from_interaction calls the learned       *)
(* store is within its capacity: phrase_mappings holds no more mappings    *)
(* than the cap (the 'keep last 100' of the store) and correction_history  *)
(* no more than 100 entries.                                               *)
(***************************************************************************)
C19_LearnedStoreWithinCapacity ==
    /\ Len(nlp.phrase_mappings) <= CorrectionCap
    /\ Len(nlp.correction_history) <= CorrectionCap

(***************************************************************************)
(* C20: when the call of the external classifier fails (it raises, or it   *)
(* returns text that is not JSON), process_message does not raise and      *)
(* returns the local rule-based classification of the utterance.  The      *)
(* calls taken are those that reach the external classifier and whose      *)
(* intent no learned phrase overrides.                                     *)
(***************************************************************************)
FailedOutcomes == {outcome \in GeminiOutcomes : outcome.kind \in {"error", "text"}}

C20_FailedExternalCallFallsBackLocally ==
    [][\A m \in Messages, outcome \in FailedOutcomes :
          (/\ nlp.nlp
           /\ nlp.gemini_model
           /\ _check_cache(nlp.cache, m) = NoResult
           /\ _check_learned_patterns(nlp.phrase_mappings, m) = "None"
           /\ ProcessStep(m, <<>>, outcome)) =>
             /\ nlp'.result.status = "returned"
             /\ nlp'.result.intent = _fallback_intent_classification(m).intent
             /\ nlp'.result.is_safe = _fallback_intent_classification(m).is_safe]_vars

(***************************************************************************)
(* SpecCall: process_message with the call of the external classifier as   *)
(* a step of its own.  The engine blocks in generate_content(prompt),      *)
(* which is given no timeout, until the service answers or the client      *)
(* raises; nothing in the engine abandons a call that is not answered.     *)
(* The engine takes its own steps (weak fairness); the service owes no     *)
(* answer.                                                                 *)
(***************************************************************************)
IdleCall == [fn |-> "process_message", pc |-> "idle", text |-> ""]

\* the call gets as far as generate_content
ReachesGemini(engine, m, current_destinations) ==
    /\ _check_cache(engine.cache, m) = NoResult
    /\ engine.nlp
    /\ ~(current_destinations # <<>> /\ _is_reference_query(m))
    /\ engine.gemini_model

InitCall ==
    /\ InitContext
    /\ turn = NoTurn
    /\ probe = IdleCall
    /\ \E spacy_loaded \in BOOLEAN, gemini_configured \in BOOLEAN :
          nlp = NewEngine(spacy_loaded, gemini_configured)

\* a call that returns or raises without the external classifier
CallWithoutGemini ==
    /\ probe.pc = "idle"
    /\ nlp.calls < MaxCalls
    /\ \E m \in Messages, current_destinations \in IdLists(DestIds, 1) :
          /\ ~ReachesGemini(nlp, m, current_destinations)
          /\ \E outcome \in GeminiOutcomes :
                nlp' = [process_message(nlp, m, current_destinations, outcome)
                          EXCEPT !.calls = @ + 1]
    /\ UNCHANGED <<ctxvars, turn, probe>>

\* response = self.gemini_model.generate_content(prompt): the call is sent
CallGemini ==
    /\ probe.pc = "idle"
    /\ nlp.calls < MaxCalls
    /\ \E m \in Messages, current_destinations \in IdLists(DestIds, 1) :
          /\ ReachesGemini(nlp, m, current_destinations)
          /\ probe' = [probe EXCEPT !.pc = "calling", !.text = m.text]
    /\ UNCHANGED <<ctxvars, turn, nlp>>

\* the service answers or the client raises, and process_message returns
GeminiReturns ==
    /\ probe.pc = "calling"
    /\ \E outcome \in GeminiOutcomes :
          nlp' = [process_message(nlp, CHOOSE m \in Messages : m.text = probe.text,
                                  <<>>, outcome)
                    EXCEPT !.calls = @ + 1]
    /\ probe' = IdleCall
    /\ UNCHANGED <<ctxvars, turn>>

NextCall ==
    \/ CallWithoutGemini
    \/ CallGemini
    \/ GeminiReturns

SpecCall ==
    InitCall /\ [][NextCall]_vars /\ WF_vars(CallWithoutGemini \/ CallGemini)

(***************************************************************************)
(* C21: every turn completes: a call of the external classifier that the   *)
(* service never answers is abandoned, and process_message returns.        *)
(***************************************************************************)
C21_TurnCompletes == (probe.pc = "calling") ~> (probe.pc = "idle")

(***************************************************************************)
(* SpecConc: chat turns of one session handled by concurrent workers.      *)
(* Each worker builds its own ConversationContextManager, which loads the  *)
(* session's ConversationState row into memory; every mutator changes      *)
(* that in-memory copy and writes the whole row back with                  *)
(* self.context.save().  No lock, transaction or version test guards the   *)
(* row.  The context variables are the stored row.                         *)
(***************************************************************************)
\* concurrent turns of the session
NumWorkers == 2

Workers == 1..NumWorkers

\* what the turn of each worker asks for
TurnActivities == <<"beach", "mountain", "adventure", "wildlife">>

NoCopy == [active_search |-> FreshActiveSearch, user_preferences_learned |-> {}]

InitConc ==
    /\ InitContext
    /\ turn = NoTurn
    /\ nlp = NewEngine(TRUE, TRUE)
    /\ probe = [fn |-> "chat",
                workers |-> [w \in Workers |-> [pc |-> "idle", context |-> NoCopy]]]

\* ConversationContextManager(session): _load_or_create_context
LoadContext(w) ==
    /\ probe.workers[w].pc = "idle"
    /\ probe' = [probe EXCEPT !.workers[w] =
                   [pc |-> "loaded",
                    context |-> [active_search |-> active_search,
                                 user_preferences_learned |-> user_preferences_learned]]]
    /\ UNCHANGED <<ctxvars, turn, nlp>>

\* context_mgr.update_active_search(...) of the turn, save included
SaveActiveSearch(w) ==
    /\ probe.workers[w].pc = "loaded"
    /\ \E results \in MgrResults :
          LET context == probe.workers[w].context
              updated == update_active_search(context.active_search,
                            "show me beach destinations", results,
                            Constraint("experience", TurnActivities[w]))
          IN  /\ probe' = [probe EXCEPT !.workers[w] =
                             [pc |-> "searched",
                              context |-> [context EXCEPT !.active_search = updated]]]
              /\ active_search' = updated
              /\ user_preferences_learned' = context.user_preferences_learned
    /\ UNCHANGED <<mentioned_entities, location_memory, conversation_flow,
                   rankings_applied, turn, nlp>>

\* context_mgr.learn_preference(...) of the turn, save included
SaveLearnPreference(w) ==
    /\ probe.workers[w].pc = "searched"
    /\ LET context == probe.workers[w].context
           learned == learn_preference(context.user_preferences_learned,
                                       TurnActivities[w], 1)
       IN  /\ probe' = [probe EXCEPT !.workers[w] =
                          [pc |-> "done",
                           context |-> [context EXCEPT
                                          !.user_preferences_learned = learned]]]
           /\ user_preferences_learned' = learned
           /\ active_search' = context.active_search
    /\ UNCHANGED <<mentioned_entities, location_memory, conversation_flow,
                   rankings_applied, turn, nlp>>

NextConc ==
    \/ \E w \in Workers : LoadContext(w)
    \/ \E w \in Workers : SaveActiveSearch(w)
    \/ \E w \in Workers : SaveLearnPreference(w)

SpecConc == InitConc /\ [][NextConc]_vars

(***************************************************************************)
(* C22: concurrent turns of one session do not lose each other's updates:  *)
(* when all have finished, results_evolution holds one entry per turn      *)
(* with the steps 1..n, and constraints_applied and the learned            *)
(* preferences hold the additions of every turn.                           *)
(***************************************************************************)
C22_ConcurrentTurnsKeepAllUpdates ==
    (\A w \in Workers : probe.workers[w].pc = "done") =>
       /\ Len(active_search.results_evolution) = NumWorkers
       /\ StepsAreOneToN(active_search.results_evolution)
       /\ \A w \in Workers :
             /\ Constraint("experience", TurnActivities[w])
                   \in Range(active_search.constraints_applied)
             /\ \E p \in user_preferences_learned : p.key = TurnActivities[w]

(***************************************************************************)
(* HybridNLPEngine.handle_inappropriate_content: the fixed reply for an    *)
(* unsafe message, named here by the branch that returns it.               *)
(***************************************************************************)
\* the branches with 'harmful' tested before 'vulgar'
handle_inappropriate_content_mut(safety_issues) ==
    IF "harmful" \in safety_issues
    THEN [message |-> "harmful", tone |-> "firm_decline"]
    ELSE IF "vulgar" \in safety_issues
    THEN [message |-> "vulgar", tone |-> "gentle_redirect"]
    ELSE IF "religious_extreme" \in safety_issues
    THEN [message |-> "religious_extreme", tone |-> "firm_redirect"]
    ELSE IF "spam" \in safety_issues
    THEN [message |-> "spam", tone |-> "redirect"]
    ELSE [message |-> "default", tone |-> "gentle_redirect"]

handle_inappropriate_content(safety_issues) ==
    IF "vulgar" \in safety_issues
    THEN [message |-> "vulgar", tone |-> "gentle_redirect"]
    ELSE IF "religious_extreme" \in safety_issues
    THEN [message |-> "religious_extreme", tone |-> "firm_redirect"]
    ELSE IF "harmful" \in safety_issues
    THEN [message |-> "harmful", tone |-> "firm_decline"]
    ELSE IF "spam" \in safety_issues
    THEN [message |-> "spam", tone |-> "redirect"]
    ELSE [message |-> "default", tone |-> "gentle_redirect"]

(***************************************************************************)
(* SpecChat: views.chat and views.feedback on one session and the engine   *)
(* they share.  A chat turn classifies the message with process_message,   *)
(* answers an unsafe message with the fixed reply, routes a safe one to    *)
(* the handler of its intent and then reinforces the detected intent.      *)
(* The requests of a run are made within the lifetime of a cache entry     *)
(* (3600 s); SpecNlp has the runs in which entries expire.                 *)
(***************************************************************************)
\* requests of one run (SpecChat)
MaxChatCalls == 3

\* the messages of the session: "for 5 days" next to those of Messages
ChatMessages ==
    {m \in Messages : m.text # "damn, tell me about the first one"} \cup
      {[text |-> "for 5 days", denylisted |-> FALSE, refpat |-> FALSE,
        tier_intent |-> "duration"]}

\* what the handlers find in a message: a denylisted message reads as the
\* message without the denylisted word
ChatUtterance(m) ==
    IF m.text = "show me damn beach destinations"
    THEN [UtteranceOf("show me beach destinations") EXCEPT !.text = m.text]
    ELSE UtteranceOf(m.text)

\* the safety_issues lists of the external classifier's unsafe answers
ChatSafetyIssues ==
    {{"vulgar", "harmful"}, {"religious_extreme", "harmful", "spam"},
     {"harmful", "spam"}, {"spam"}}

ChatOutcomes ==
    {[kind |-> "error", intent |-> "None", is_safe |-> TRUE, mentions |-> {},
      safety_issues |-> {}],
     [kind |-> "answer", intent |-> "search", is_safe |-> TRUE, mentions |-> {},
      safety_issues |-> {}],
     [kind |-> "text", intent |-> "None", is_safe |-> TRUE,
      mentions |-> {"inappropriate"}, safety_issues |-> {}]}
      \cup [kind : {"answer"}, intent : {"inappropriate"}, is_safe : {FALSE},
            mentions : {{}}, safety_issues : ChatSafetyIssues]

NoReply == [message |-> "None", tone |-> "None"]

\* the response of the last request and the user message it answered
InitChat ==
    /\ InitContext
    /\ turn = NoTurn
    /\ probe = [fn |-> "chat", status |-> "None", reply |-> NoReply,
                detected_intent |-> "None", answered |-> "None"]
    /\ \E spacy_loaded \in BOOLEAN, gemini_configured \in BOOLEAN :
          nlp = NewEngine(spacy_loaded, gemini_configured)

\* the handler that chat() calls for a detected intent
RouteIntent(detected_intent, u) ==
    IF detected_intent = "search" THEN handle_destination_search_v2(u)
    ELSE IF detected_intent = "budget"
    THEN handle_budget_query(u, ExtractEntities(u).budget)
    ELSE IF detected_intent = "reference"
            \/ (detected_intent = "duration" /\ get_current_destinations # <<>>)
    THEN handle_reference_query(u)
    ELSE /\ turn' = [NoTurn EXCEPT !.handler = "general", !.text = u.text,
                                   !.total_messages = turn.total_messages + 2]
         /\ UNCHANGED ctxvars

\* process_message raises: chat() answers with status 500
ChatRaises ==
    /\ nlp.calls < MaxChatCalls
    /\ \E m \in ChatMessages, outcome \in ChatOutcomes :
          LET engine == process_message(nlp, m, get_current_destinations, outcome)
          IN  /\ engine.result.status = "raised"
              /\ nlp' = [engine EXCEPT !.calls = @ + 1]
              /\ probe' = [probe EXCEPT !.status = "error", !.reply = NoReply,
                                        !.detected_intent = "None"]
    /\ UNCHANGED <<ctxvars, turn>>

\* not is_safe: the fixed reply, and chat() returns
ChatUnsafe ==
    /\ nlp.calls < MaxChatCalls
    /\ \E m \in ChatMessages, outcome \in ChatOutcomes :
          LET engine == process_message(nlp, m, get_current_destinations, outcome)
          IN  /\ engine.result.status = "returned"
              /\ ~engine.result.is_safe
              /\ nlp' = [engine EXCEPT !.calls = @ + 1]
              /\ probe' = [probe EXCEPT
                             !.status = "unsafe",
                             !.reply = handle_inappropriate_content(
                                           engine.result.safety_issues),
                             !.detected_intent = "inappropriate",
                             !.answered = m.text]
    /\ UNCHANGED <<ctxvars, turn>>

\* is_safe: the handler of the intent, then learn_from_interaction with
\* user_feedback='positive'; a handler that raises ends chat() before that
ChatHandled ==
    /\ nlp.calls < MaxChatCalls
    /\ CanChat
    /\ \E m \in ChatMessages, outcome \in ChatOutcomes :
          LET engine == process_message(nlp, m, get_current_destinations, outcome)
          IN  /\ engine.result.status = "returned"
              /\ engine.result.is_safe
              /\ RouteIntent(engine.result.intent, ChatUtterance(m))
              /\ IF turn'.context = "error"
                 THEN /\ nlp' = [engine EXCEPT !.calls = @ + 1]
                      /\ probe' = [probe EXCEPT !.status = "error",
                                                !.reply = NoReply,
                                                !.detected_intent = "None"]
                 ELSE /\ nlp' = [learn_from_interaction(engine, m,
                                     engine.result.intent, "positive", "None")
                                   EXCEPT !.calls = @ + 1]
                      /\ probe' = [probe EXCEPT
                                     !.status = "handled",
                                     !.reply = NoReply,
                                     !.detected_intent = engine.result.intent,
                                     !.answered = m.text]

\* views.feedback on the last answer: its message is classified again,
\* without the session context, and learn_from_interaction gets the feedback
ChatFeedback ==
    /\ nlp.calls < MaxChatCalls
    /\ probe.answered # "None"
    /\ \E outcome \in ChatOutcomes,
          feedback_type \in {"positive", "correction"},
          correct_intent \in {"None"} \cup LearnedIntents :
          LET m == CHOOSE x \in ChatMessages : x.text = probe.answered
              engine == process_message(nlp, m, <<>>, outcome)
          IN  /\ engine.result.status = "returned"
              /\ nlp' = [learn_from_interaction(engine, m, engine.result.intent,
                                                feedback_type, correct_intent)
                           EXCEPT !.calls = @ + 1]
              /\ probe' = [probe EXCEPT !.status = "feedback", !.reply = NoReply,
                                        !.detected_intent = engine.result.intent]
    /\ UNCHANGED <<ctxvars, turn>>

NextChat ==
    \/ ChatRaises
    \/ ChatUnsafe
    \/ ChatHandled
    \/ ChatFeedback

SpecChat == InitChat /\ [][NextChat]_vars

(***************************************************************************)
(* C23: a chat turn whose classification has is_safe = FALSE ends with the *)
(* fixed reply of the first safety category, in the order vulgar,          *)
(* religious_extreme, harmful, spam, that is among the safety issues (the  *)
(* default reply when none is); no handler runs, so the turn record, the   *)
(* active search, the topic, the location memory and the rest of the       *)
(* context are as before, and so are the learned patterns.                 *)
(***************************************************************************)
\* a chat turn whose classification came back with is_safe = FALSE
UnsafeStep ==
    /\ nlp'.calls = nlp.calls + 1
    /\ probe'.status \in {"unsafe", "handled"}
    /\ ~nlp'.result.is_safe

RemediationOrder == <<"vulgar", "religious_extreme", "harmful", "spam">>

C23_UnsafeTurnIsTerminal ==
    [][UnsafeStep =>
             LET safety_issues == nlp'.result.safety_issues
                 hits == {i \in 1..Len(RemediationOrder) :
                             RemediationOrder[i] \in safety_issues}
             IN  /\ probe'.reply.message =
                      (IF hits = {} THEN "default"
                       ELSE RemediationOrder[CHOOSE i \in hits :
                                                \A j \in hits : i <= j])
                 /\ turn' = turn
                 /\ active_search' = active_search
                 /\ conversation_flow' = conversation_flow
                 /\ location_memory' = location_memory
                 /\ mentioned_entities' = mentioned_entities
                 /\ user_preferences_learned' = user_preferences_learned
                 /\ rankings_applied' = rankings_applied
                 /\ nlp'.phrase_mappings = nlp.phrase_mappings
                 /\ nlp'.correction_history = nlp.correction_history]_vars

\* an unsafe turn with two safety issues, taken in a session that has an
\* active search, a discussed destination and learned patterns
C23_Witness ==
    /\ probe.status = "unsafe"
    /\ probe.reply.message = "vulgar"
    /\ nlp.result.safety_issues = {"vulgar", "harmful"}
    /\ active_search.current_destination_ids # <<>>
    /\ location_memory.last_discussed_location # NoLocation
    /\ nlp.phrase_mappings # <<>>

(***************************************************************************)
(* C24: the source of every result that process_message returns names the *)
(* step that produced it: the cache for a cache hit, the reference         *)
(* short-circuit, a learned pattern, the external service when its answer  *)
(* is used, and the local fallback when the service is not configured or   *)
(* its call failed.  The code's own words for the reference step and the   *)
(* external service are accepted.                                          *)
(***************************************************************************)
ProducingStep(engine, m, current_destinations, outcome) ==
    IF _check_cache(engine.cache, m) # NoResult THEN "cache"
    ELSE IF current_destinations # <<>> /\ _is_reference_query(m) THEN "reference"
    ELSE IF _check_learned_patterns(engine.phrase_mappings, m) # "None"
    THEN "learned"
    ELSE IF engine.gemini_model /\ outcome.kind # "error" THEN "external"
    ELSE "fallback"

SourceNames(step) ==
    IF step = "reference" THEN {"reference", "reference_detection"}
    ELSE IF step = "external" THEN {"external", "gemini"}
    ELSE {step}

C24_SourceNamesProducingStep ==
    [][\A m \in Messages, current_destinations \in IdLists(DestIds, 1),
          outcome \in GeminiOutcomes :
          (ProcessStep(m, current_destinations, outcome)
             /\ nlp'.result.status = "returned") =>
               nlp'.result.source \in
                  SourceNames(ProducingStep(nlp, m, current_destinations,
                                            outcome))]_vars

(***************************************************************************)
(* C25: a turn that refines the stored results and is left with fewer than *)
(* 2 of them runs the relaxation pass: after every refine turn that did    *)
(* not fail, fewer than 2 shown results mean that the turn was relaxed,    *)
(* and the results of a relaxed turn are the stored result set.            *)
(***************************************************************************)
C25_FewResultsAreRelaxed ==
    (turn.mode = "refine" /\ turn.before # <<>> /\ turn.context # "error") =>
        /\ Len(turn.destinations) < MinResults => turn.relaxed
        /\ (turn.relaxed /\ turn.destinations # <<>>) =>
              active_search.current_destination_ids = turn.destinations

(***************************************************************************)
(* C26: the ranking weights change only by adjust_ranking_priorities:      *)
(* every step that changes them changes, for one of the kinds budget,      *)
(* safety and weather, at most the weights named for that kind (budget:    *)
(* budget and weather; safety: safety; weather: weather) and leaves the    *)
(* weights what one more call with that kind would leave them; a kind      *)
(* that is not named changes nothing; clear_context and the other          *)
(* mutators never change them.                                             *)
(***************************************************************************)
NamedWeights(constraint_type) ==
    IF constraint_type = "budget" THEN {"budget_priority", "weather_priority"}
    ELSE IF constraint_type = "safety" THEN {"safety_priority"}
    ELSE IF constraint_type = "weather" THEN {"weather_priority"}
    ELSE {}

C26_RankingsOnlyNudgedByNamedKinds ==
    [][/\ rankings_applied' # rankings_applied =>
             \E constraint_type \in {"budget", "safety", "weather"} :
                /\ \A w \in DOMAIN rankings_applied :
                      w \notin NamedWeights(constraint_type) =>
                         rankings_applied'[w] = rankings_applied[w]
                /\ adjust_ranking_priorities(rankings_applied', constraint_type)
                     = rankings_applied'
       /\ \A constraint_type \in AdjustKinds :
             LET once == adjust_ranking_priorities(rankings_applied,
                                                   constraint_type)
             IN  /\ adjust_ranking_priorities(once, constraint_type) = once
                 /\ \A w \in DOMAIN rankings_applied :
                       w \notin NamedWeights(constraint_type) =>
                          once[w] = rankings_applied[w]
       /\ (\E keep_preferences \in BOOLEAN : ClearStep(keep_preferences)) =>
             rankings_applied' = rankings_applied]_vars

\* all three kinds were applied, the weather kind after the budget kind,
\* and a clear has run since
C26_Witness ==
    /\ rankings_applied =
          [DefaultRankings EXCEPT !.budget_priority = 30, !.weather_priority = 45,
                                  !.safety_priority = 35]
    /\ conversation_flow.topic_switches > 0
    /\ active_search = FreshActiveSearch

(***************************************************************************)
(* C27: once a correction of a message to an intent has been learned, the  *)
(* learned mapping of that message stays that intent until the next        *)
(* correction is recorded: a handled chat turn, with its reinforcement of  *)
(* the detected intent, leaves the mapping of every corrected message as   *)
(* it was.                                                                 *)
(***************************************************************************)
\* a chat turn that reached its handler and the reinforcement after it
HandledStep ==
    /\ probe'.status = "handled"
    /\ nlp'.calls = nlp.calls + 1
    /\ turn'.total_messages = turn.total_messages + 2

CorrectionsOf(text) ==
    {i \in 1..Len(nlp.correction_history) :
        nlp.correction_history[i].message = text}

LatestCorrectionOf(text) ==
    nlp.correction_history[CHOOSE i \in CorrectionsOf(text) :
                              \A j \in CorrectionsOf(text) : j <= i]

C27_CorrectionOutlivesReinforcement ==
    [][\A m \in ChatMessages :
          (/\ CorrectionsOf(m.text) # {}
           /\ MappedIntent(nlp.phrase_mappings, m.text)
                = LatestCorrectionOf(m.text).correct_intent
           /\ HandledStep) =>
             MappedIntent(nlp'.phrase_mappings, m.text)
               = MappedIntent(nlp.phrase_mappings, m.text)]_vars

(***************************************************************************)
(* C28: constraints_applied only grows and keeps its entries, and a refine *)
(* turn of the search handler records every constraint it filters by: when *)
(* the utterance states both a budget and a duration, the entries added by *)
(* the turn include one for the budget and one for the duration.           *)
(***************************************************************************)
C28_RefineRecordsEveryConstraint ==
    [][LET old == active_search.constraints_applied
           new == active_search'.constraints_applied
           entities == ExtractEntities(UtteranceOf(turn'.text))
           added == {new[i] : i \in (Len(old) + 1)..Len(new)}
       IN  /\ Len(old) <= Len(new)
           /\ SubSeq(new, 1, Len(old)) = old
           /\ (/\ turn'.handler = "search"
               /\ turn'.mode = "refine"
               /\ turn'.total_messages = turn.total_messages + 2
               /\ entities.budget # NoBudget
               /\ entities.duration # 0) =>
                 /\ \E c \in added : c.type = "budget"
                 /\ \E c \in added : c.type = "duration"]_vars

(***************************************************************************)
(* HybridNLPEngine._fallback_intent_classification, branch by branch.      *)
(* A message is the set of marks that the tests of the branches find in    *)
(* it; a mark stands for the keywords and entities named beside it.        *)
(***************************************************************************)
Marks ==
    {"reference",      \* a pattern of _is_reference_query matches
     "hello",          \* starts with 'hi', 'hello', 'hey', ...
     "thanks",         \* 'bye', 'goodbye', 'thanks', ...
     "things to do",   \* 'things to do', 'places to visit', 'attractions', ...
     "where to eat",   \* 'where to eat', 'restaurants', 'food', ...
     "where to stay",  \* 'where to stay', 'hotels', 'resort', ...
     "for ",           \* 'for ' or 'day' with no number in front
     "5 days",         \* a number in front of 'day(s)': entities['durations']
     "amount",         \* any other digit run: entities['budget']
     "under",          \* 'budget', 'under', 'within', 'cheap', 'affordable'
     "show",           \* 'show', 'find', 'search'
     "looking for",
     "give me",        \* 'give me', 'list'
     "suggest",        \* 'suggest', 'suggestions'
     "recommend",      \* 'recommend', 'recommendations'
     "for me",         \* 'for me'
     "to me",          \* 'me some', 'to me'
     "location",       \* a GPE, LOC or FAC entity: entities['locations']
     "activity",       \* entities['activities'] or 'destination', 'place', ...
     "weather",        \* 'weather', 'temperature', 'climate', 'rain', ...
     "is it safe",     \* 'is it safe', 'safety', 'how safe', ...
     "tell me about",  \* 'tell me about', 'more about', 'what is', ...
     "itinerary",      \* 'plan a trip', 'itinerary', 'schedule', ...
     "save",           \* 'save', 'bookmark', 'wishlist', ...
     "damn"}           \* a word of profanity_list

\* the branches in the order of the if/elif chain
TierIntent(marks) ==
    LET has(S) == marks \cap S # {}
    IN  IF has({"reference"}) THEN "reference"
        ELSE IF has({"hello"}) THEN "greeting"
        ELSE IF has({"thanks"}) THEN "farewell"
        ELSE IF has({"things to do"}) THEN "attractions"
        ELSE IF has({"where to eat"}) THEN "restaurants"
        ELSE IF has({"where to stay"}) THEN "accommodations"
        ELSE IF /\ has({"for ", "5 days", "for me", "looking for"})
                /\ has({"5 days"})
                /\ ~has({"show", "looking for"})
        THEN "duration"
        ELSE IF /\ has({"under"})
                /\ has({"amount", "5 days"})
                /\ ~has({"show"})
        THEN "budget"
        ELSE IF /\ has({"show", "looking for", "give me", "suggest"})
                /\ has({"location", "activity"})
        THEN "search"
        ELSE IF has({"recommend", "suggest"}) /\ has({"for me", "to me"})
        THEN "recommendation"
        ELSE IF has({"weather"}) THEN "weather"
        ELSE IF has({"is it safe"}) THEN "safety"
        ELSE IF /\ has({"tell me about"})
                /\ ~has({"things to do", "where to eat", "where to stay"})
        THEN "more_info"
        ELSE IF has({"itinerary"}) THEN "trip_planning"
        ELSE IF has({"save"}) THEN "bookmark"
        ELSE "general"

\* the profanity check after the chain overrides its intent
ClassifyMarks(marks) ==
    IF "damn" \in marks
    THEN [intent |-> "inappropriate", is_safe |-> FALSE,
          safety_issues |-> {"vulgar"}]
    ELSE [intent |-> TierIntent(marks), is_safe |-> TRUE, safety_issues |-> {}]

(***************************************************************************)
(* SpecTier: _fallback_intent_classification applied to a message with up  *)
(* to MaxMarks marks.                                                      *)
(***************************************************************************)
MaxMarks == 3

RECURSIVE MarkSets(_)
MarkSets(n) ==
    IF n = 0 THEN {{}}
    ELSE LET smaller == MarkSets(n - 1)
         IN  smaller \cup {S \cup {mark} : S \in smaller, mark \in Marks}

InitTier ==
    /\ InitContext
    /\ turn = NoTurn
    /\ nlp = NewEngine(TRUE, FALSE)
    /\ \E marks \in MarkSets(MaxMarks) :
          probe = [fn |-> "_fallback_intent_classification", marks |-> marks,
                   done |-> FALSE, result |-> ClassifyMarks({})]

FallbackClassifyCall ==
    /\ probe.fn = "_fallback_intent_classification"
    /\ ~probe.done
    /\ probe' = [probe EXCEPT !.done = TRUE, !.result = ClassifyMarks(probe.marks)]
    /\ UNCHANGED <<ctxvars, turn, nlp>>

NextTier == FallbackClassifyCall

SpecTier == InitTier /\ [][NextTier]_vars

(***************************************************************************)
(* C29: local classification gives a message that matches a destination-   *)
(* specific category (attractions, restaurants, accommodations, weather,   *)
(* safety), and neither the reference tier nor the conversation tier nor   *)
(* the denylist, the intent of a category it matches, whether or not it    *)
(* also matches the filter-only tier or the search tier.                   *)
(***************************************************************************)
CategoryOfMark ==
    [m \in {"things to do", "where to eat", "where to stay", "weather",
            "is it safe"} |->
        IF m = "things to do" THEN "attractions"
        ELSE IF m = "where to eat" THEN "restaurants"
        ELSE IF m = "where to stay" THEN "accommodations"
        ELSE IF m = "weather" THEN "weather"
        ELSE "safety"]

C29_CategoryTierBeforeFilterAndSearch ==
    (/\ probe.fn = "_fallback_intent_classification"
     /\ probe.done
     /\ probe.marks \cap {"reference", "hello", "thanks", "damn"} = {}
     /\ probe.marks \cap DOMAIN CategoryOfMark # {}) =>
        probe.result.intent \in
           {CategoryOfMark[m] : m \in probe.marks \cap DOMAIN CategoryOfMark}

(***************************************************************************)
(* C30: a chat turn with the duration-only message 'for 5 days', detected  *)
(* as a duration turn while the session has current results, narrows       *)
(* them: afterwards the stored ids are the ids of the previous list whose  *)
(* typical duration is at most 5 days, and constraints_applied has gained  *)
(* a duration entry at its end.                                            *)
(***************************************************************************)
DurationOnlyText == "for 5 days"

C30_DurationOnlyTurnNarrows ==
    [][(/\ HandledStep
        /\ probe'.answered = DurationOnlyText
        /\ probe'.detected_intent = "duration"
        /\ get_current_destinations # <<>>) =>
          LET days == UtteranceOf(DurationOnlyText).days
              old == active_search.constraints_applied
              new == active_search'.constraints_applied
          IN  /\ Range(active_search'.current_destination_ids) =
                   {d \in Range(get_current_destinations) :
                       typical_duration(d) <= days}
              /\ Len(new) = Len(old) + 1
              /\ SubSeq(new, 1, Len(old)) = old
              /\ new[Len(new)] = Constraint("duration", days)]_vars

====
